---- MODULE Spec2Model ----
(***************************************************************************)
(* Model of the multi-source match reconciliation (data_merger.py) and of  *)
(* the temporal feature engine (temporal_features.py), and of the storage  *)
(* of the merged records (data_storage.py) and of the collectors' requests *)
(* (base_collector.py).                                                    *)
(*                                                                         *)
(* Python str values are sequences of characters: a character is a         *)
(* one-character TLA+ string, except the four accented letters of the      *)
(* alias table, written "e_acute", "E_acute", "u_uml", "U_uml".            *)
(***************************************************************************)
EXTENDS Integers, Sequences, FiniteSets, TLC

VARIABLES
    \* TeamNameNormalizer.normalize called twice in a row
    team_name, norm_once, norm_twice, npc,
    \* DataMerger._create_match_key
    key_date, key_home, key_away, match_key, kpc,
    \* DataMerger.merge_matches
    sources, primary_source, merged_matches, merged_keys, mpc,
    \* TemporalFeatureEngineer.create_team_features
    matches, date_cutoff, window_sizes, features, fpc,
    \* DataMerger._calculate_derived_fields
    match_in, match_out, dpc,
    \* TeamNameNormalizer.normalize called with any value
    argument, outcome, apc,
    \* DataMerger._merge_match_group on the rows of one match key
    group_rows, group_primary, group_merged, gpc,
    \* DataStorage.save_matches on the matches table
    db_rows, db_before, saved_list, prev_list, clock, spc,
    \* TeamNameNormalizer.find_best_match
    target_name, candidates, best_match, bpc,
    \* BaseDataCollector._make_request: the cache files, the clock and the
    \* call in progress
    cache, last_request_time, time_now, request, use_cache, cache_ttl,
    retries, sent, status_code, call_result, cache_at_call, last_at_call,
    time_at_call, cpc

nvars == <<team_name, norm_once, norm_twice, npc>>
kvars == <<key_date, key_home, key_away, match_key, kpc>>
mvars == <<sources, primary_source, merged_matches, merged_keys, mpc>>
fvars == <<matches, date_cutoff, window_sizes, features, fpc>>
dvars == <<match_in, match_out, dpc>>
avars == <<argument, outcome, apc>>
gvars == <<group_rows, group_primary, group_merged, gpc>>
svars == <<db_rows, db_before, saved_list, prev_list, clock, spc>>
bvars == <<target_name, candidates, best_match, bpc>>
cvars == <<cache, last_request_time, time_now, request, use_cache, cache_ttl,
           retries, sent, status_code, call_result, cache_at_call, last_at_call,
    time_at_call, cpc>>
vars == <<nvars, kvars, mvars, fvars, dvars, avars, gvars, svars, bvars, cvars>>

----------------------------------------------------------------------------
(* Characters and str methods                                              *)

\* The characters in code point order (str comparison is by code point).
Alphabet ==
    <<" ", "&", "-", "0", "1", "2", "3", "4", "5", "6", "7", "8", "9", ":",
      "A", "B", "C", "D", "E", "F", "G", "H", "I", "J", "K", "L", "M",
      "N", "O", "P", "Q", "R", "S", "T", "U", "V", "W", "X", "Y", "Z",
      "_",
      "a", "b", "c", "d", "e", "f", "g", "h", "i", "j", "k", "l", "m",
      "n", "o", "p", "q", "r", "s", "t", "u", "v", "w", "x", "y", "z",
      "E_acute", "U_uml", "e_acute", "u_uml">>

Ord(c) == CHOOSE i \in 1..Len(Alphabet) : Alphabet[i] = c

UpperLetters ==
    <<"A", "B", "C", "D", "E", "F", "G", "H", "I", "J", "K", "L", "M",
      "N", "O", "P", "Q", "R", "S", "T", "U", "V", "W", "X", "Y", "Z",
      "E_acute", "U_uml">>

LowerLetters ==
    <<"a", "b", "c", "d", "e", "f", "g", "h", "i", "j", "k", "l", "m",
      "n", "o", "p", "q", "r", "s", "t", "u", "v", "w", "x", "y", "z",
      "e_acute", "u_uml">>

Range(s) == {s[i] : i \in DOMAIN s}

IsUpper(c) == c \in Range(UpperLetters)
IsLower(c) == c \in Range(LowerLetters)
IsCased(c) == IsUpper(c) \/ IsLower(c)

LowerChar(c) ==
    IF IsUpper(c)
    THEN LowerLetters[CHOOSE i \in DOMAIN UpperLetters : UpperLetters[i] = c]
    ELSE c

UpperChar(c) ==
    IF IsLower(c)
    THEN UpperLetters[CHOOSE i \in DOMAIN LowerLetters : LowerLetters[i] = c]
    ELSE c

\* str.lower(), and the str left as it is
NotLowered(s) == s
Lower(s) == [i \in DOMAIN s |-> LowerChar(s[i])]

\* str.title(): a cased character is upper-cased when the character before
\* it is not cased (or there is none), lower-cased otherwise.
Title(s) ==
    [i \in DOMAIN s |->
        IF i > 1 /\ IsCased(s[i - 1]) THEN LowerChar(s[i]) ELSE UpperChar(s[i])]

RECURSIVE LStrip(_)
LStrip(s) == IF s # << >> /\ Head(s) = " " THEN LStrip(Tail(s)) ELSE s

RECURSIVE RStrip(_)
RStrip(s) ==
    IF s # << >> /\ s[Len(s)] = " " THEN RStrip(SubSeq(s, 1, Len(s) - 1)) ELSE s

\* str.strip()
Strip(s) == RStrip(LStrip(s))

\* str.startswith / str.endswith
StartsWith(s, p) == Len(s) >= Len(p) /\ SubSeq(s, 1, Len(p)) = p
EndsWith(s, p) == Len(s) >= Len(p) /\ SubSeq(s, Len(s) - Len(p) + 1, Len(s)) = p

\* s < t for two str values
RECURSIVE StrLess(_, _)
StrLess(s, t) ==
    IF t = << >> THEN FALSE
    ELSE IF s = << >> THEN TRUE
    ELSE IF Head(s) = Head(t) THEN StrLess(Tail(s), Tail(t))
    ELSE Ord(Head(s)) < Ord(Head(t))

----------------------------------------------------------------------------
(* difflib.SequenceMatcher(None, a, b).ratio(), as used by _similarity     *)

\* Length of the common run of a and b that starts at a[i], b[j] and stays
\* below ahi, bhi (positions are 1-based, ranges are lo..hi-1 as in difflib).
RECURSIVE RunLen(_, _, _, _, _, _)
RunLen(a, b, i, j, ahi, bhi) ==
    IF i < ahi /\ j < bhi /\ a[i] = b[j]
    THEN 1 + RunLen(a, b, i + 1, j + 1, ahi, bhi)
    ELSE 0

\* find_longest_match(alo, ahi, blo, bhi) without junk: the longest block,
\* of those the one starting earliest in a, of those the earliest in b.
\* blocks are the common runs <<i, j, size>> of the two ranges.
LongestBlock(alo, blo, blocks) ==
    IF blocks = {} THEN <<alo, blo, 0>>
    ELSE CHOOSE m \in blocks :
            \A o \in blocks :
                \/ o[3] < m[3]
                \/ o[3] = m[3] /\ m[1] < o[1]
                \/ o[3] = m[3] /\ m[1] = o[1] /\ m[2] <= o[2]

FindLongestMatch(a, b, alo, ahi, blo, bhi) ==
    LongestBlock(alo, blo,
        {<<p[1], p[2], RunLen(a, b, p[1], p[2], ahi, bhi)>> :
            p \in {q \in (alo..(ahi - 1)) \X (blo..(bhi - 1)) : a[q[1]] = b[q[2]]}})

\* Sum of the sizes of get_matching_blocks(): the longest block m, then
\* the same to its left and to its right.
RECURSIVE MatchingSize(_, _, _, _, _, _)
BlocksAround(a, b, alo, ahi, blo, bhi, m) ==
    IF m[3] = 0 THEN 0
    ELSE m[3]
         + (IF alo < m[1] /\ blo < m[2]
            THEN MatchingSize(a, b, alo, m[1], blo, m[2]) ELSE 0)
         + (IF m[1] + m[3] < ahi /\ m[2] + m[3] < bhi
            THEN MatchingSize(a, b, m[1] + m[3], ahi, m[2] + m[3], bhi) ELSE 0)

MatchingSize(a, b, alo, ahi, blo, bhi) ==
    BlocksAround(a, b, alo, ahi, blo, bhi, FindLongestMatch(a, b, alo, ahi, blo, bhi))

\* ratio() = 2.0 * matches / (len(a) + len(b)), 1.0 for two empty strings;
\* kept as the fraction <<numerator, denominator>>.
_similarity(a, b) ==
    IF Len(a) + Len(b) = 0 THEN <<1, 1>>
    ELSE <<2 * MatchingSize(a, b, 1, Len(a) + 1, 1, Len(b) + 1), Len(a) + Len(b)>>

\* ratio > pct / 100
RatioAbove(r, pct) == 100 * r[1] > pct * r[2]

----------------------------------------------------------------------------
(* TeamNameNormalizer                                                      *)

\* _load_mappings(): canonical name -> aliases, in insertion order.
_load_mappings ==
    <<
    [standard |-> <<"M","a","n","c","h","e","s","t","e","r"," ","U","n","i","t","e","d">>,
     aliases |-> <<<<"M","a","n"," ","U","n","i","t","e","d">>,
                 <<"M","a","n","c","h","e","s","t","e","r"," ","U","t","d">>,
                 <<"M","a","n"," ","U","t","d">>>>],
    [standard |-> <<"M","a","n","c","h","e","s","t","e","r"," ","C","i","t","y">>,
     aliases |-> <<<<"M","a","n"," ","C","i","t","y">>,
                 <<"M","a","n","c","h","e","s","t","e","r"," ","C">>>>],
    [standard |-> <<"T","o","t","t","e","n","h","a","m"," ","H","o","t","s","p","u","r">>,
     aliases |-> <<<<"T","o","t","t","e","n","h","a","m">>,
                 <<"S","p","u","r","s">>>>],
    [standard |-> <<"W","e","s","t"," ","H","a","m"," ","U","n","i","t","e","d">>,
     aliases |-> <<<<"W","e","s","t"," ","H","a","m">>,
                 <<"W","e","s","t"," ","H","a","m"," ","U","t","d">>>>],
    [standard |-> <<"N","e","w","c","a","s","t","l","e"," ","U","n","i","t","e","d">>,
     aliases |-> <<<<"N","e","w","c","a","s","t","l","e">>,
                 <<"N","e","w","c","a","s","t","l","e"," ","U","t","d">>>>],
    [standard |-> <<"B","r","i","g","h","t","o","n"," ","&"," ","H","o","v","e"," ","A","l","b","i","o","n">>,
     aliases |-> <<<<"B","r","i","g","h","t","o","n">>,
                 <<"B","r","i","g","h","t","o","n"," ","H","o","v","e">>>>],
    [standard |-> <<"W","o","l","v","e","r","h","a","m","p","t","o","n"," ","W","a","n","d","e","r","e","r","s">>,
     aliases |-> <<<<"W","o","l","v","e","s">>,
                 <<"W","o","l","v","e","r","h","a","m","p","t","o","n">>>>],
    [standard |-> <<"A","C"," ","M","i","l","a","n">>,
     aliases |-> <<<<"M","i","l","a","n">>>>],
    [standard |-> <<"I","n","t","e","r"," ","M","i","l","a","n">>,
     aliases |-> <<<<"I","n","t","e","r">>>>],
    [standard |-> <<"A","S"," ","R","o","m","a">>,
     aliases |-> <<<<"R","o","m","a">>>>],
    [standard |-> <<"S","S"," ","L","a","z","i","o">>,
     aliases |-> <<<<"L","a","z","i","o">>>>],
    [standard |-> <<"A","t","l","e_acute","t","i","c","o"," ","M","a","d","r","i","d">>,
     aliases |-> <<<<"A","t","l","e","t","i","c","o"," ","M","a","d","r","i","d">>,
                 <<"A","t","l","e","t","i","c","o">>>>],
    [standard |-> <<"A","t","h","l","e","t","i","c"," ","B","i","l","b","a","o">>,
     aliases |-> <<<<"A","t","h","l","e","t","i","c"," ","C","l","u","b">>>>],
    [standard |-> <<"P","a","r","i","s"," ","S","a","i","n","t","-","G","e","r","m","a","i","n">>,
     aliases |-> <<<<"P","S","G">>,
                 <<"P","a","r","i","s"," ","S","G">>>>],
    [standard |-> <<"B","a","y","e","r","n"," ","M","u","n","i","c","h">>,
     aliases |-> <<<<"B","a","y","e","r","n"," ","M","u_uml","n","c","h","e","n">>,
                 <<"B","a","y","e","r","n">>>>],
    [standard |-> <<"B","o","r","u","s","s","i","a"," ","D","o","r","t","m","u","n","d">>,
     aliases |-> <<<<"D","o","r","t","m","u","n","d">>>>],
    [standard |-> <<"J","u","v","e","n","t","u","s">>,
     aliases |-> <<<<"J","u","v","e">>>>],
    [standard |-> <<"N","a","p","o","l","i">>,
     aliases |-> <<<<"S","S","C"," ","N","a","p","o","l","i">>>>]
    >>

\* prefixes and suffixes of normalize, in list order
Prefixes ==
    <<<<"f","c"," ">>,
      <<"a","f","c"," ">>,
      <<"s","s","c"," ">>,
      <<"a","s"," ">>,
      <<"f","k"," ">>,
      <<"s","c"," ">>,
      <<"r","c"," ">>,
      <<"u","d"," ">>>>

Suffixes ==
    <<<<" ","f","c">>,
      <<" ","a","f","c">>,
      <<" ","s","s","c">>,
      <<" ","a","s">>,
      <<" ","c","f">>>>

\* [standard.lower()] + [a.lower() for a in aliases] of one mapping
AllNames(m) == <<Lower(m.standard)>> \o [i \in DOMAIN m.aliases |-> Lower(m.aliases[i])]

\* _build_alias_dict(): the (key, standard) assignments in the order made;
\* a later assignment to the same key replaces an earlier one.
RECURSIVE AliasAssignments(_)
AliasAssignments(ms) ==
    IF ms = << >> THEN << >>
    ELSE [i \in DOMAIN AllNames(Head(ms)) |-> <<AllNames(Head(ms))[i], Head(ms).standard>>]
         \o AliasAssignments(Tail(ms))

\* _build_alias_dict(): the dict those assignments leave
LastAssigned(assigned, k) ==
    CHOOSE i \in DOMAIN assigned :
        /\ assigned[i][1] = k
        /\ \A j \in DOMAIN assigned : assigned[j][1] = k => j <= i

DictOf(assigned) ==
    [k \in {assigned[i][1] : i \in DOMAIN assigned} |->
        assigned[LastAssigned(assigned, k)][2]]

_build_alias_dict(ms) == DictOf(AliasAssignments(ms))

\* TeamNameNormalizer.__init__: the two fields, never assigned again
mappings == _load_mappings
alias_to_standard == _build_alias_dict(mappings)

\* for prefix in prefixes: if normalized.startswith(prefix): cut it
RECURSIVE StripPrefixes(_, _)
StripPrefixes(s, ps) ==
    IF ps = << >> THEN s
    ELSE StripPrefixes(
            IF StartsWith(s, Head(ps)) THEN SubSeq(s, Len(Head(ps)) + 1, Len(s)) ELSE s,
            Tail(ps))

\* for suffix in suffixes: if normalized.endswith(suffix): cut it
RECURSIVE StripSuffixes(_, _)
StripSuffixes(s, ss) ==
    IF ss = << >> THEN s
    ELSE StripSuffixes(
            IF EndsWith(s, Head(ss)) THEN SubSeq(s, 1, Len(s) - Len(Head(ss))) ELSE s,
            Tail(ss))

\* 0.85 of normalize, 0.8 of find_best_match, in hundredths
FuzzyThreshold == 85

\* The fuzzy loop of normalize: the mappings in order, for each its names
\* in order; the first name scoring above the threshold decides.  The
\* result is <<TRUE, standard>> or <<FALSE, << >> >>.
RECURSIVE FuzzyNames(_, _)
FuzzyNames(s, names) ==
    IF names = << >> THEN FALSE
    ELSE IF RatioAbove(_similarity(s, Head(names)), FuzzyThreshold) THEN TRUE
    ELSE FuzzyNames(s, Tail(names))

RECURSIVE FuzzySearch(_, _)
FuzzySearch(s, ms) ==
    IF ms = << >> THEN <<FALSE, << >> >>
    ELSE IF FuzzyNames(s, AllNames(Head(ms))) THEN <<TRUE, Head(ms).standard>>
    ELSE FuzzySearch(s, Tail(ms))

\* The end of normalize: the standard name found, else normalized.title()
FuzzyOrTitle(fuzzy, normalized) == IF fuzzy[1] THEN fuzzy[2] ELSE Title(normalized)

\* normalize from "normalized = team_lower" on
NormalizeUnknown(team_lower) ==
    FuzzyOrTitle(
        FuzzySearch(StripSuffixes(StripPrefixes(team_lower, Prefixes), Suffixes), mappings),
        StripSuffixes(StripPrefixes(team_lower, Prefixes), Suffixes))

\* normalize from "team_lower = team_name.strip().lower()" on
NormalizeLower(team_lower) ==
    IF team_lower \in DOMAIN alias_to_standard THEN alias_to_standard[team_lower]
    ELSE NormalizeUnknown(team_lower)

\* normalize(team_name) for a str argument ("" included)
normalize(name) ==
    IF name = << >> THEN << >> ELSE NormalizeLower(Lower(Strip(name)))

\* Team names of the model
ManUtd == <<"M","a","n"," ","U","t","d">>
ManchesterUnited == <<"M","a","n","c","h","e","s","t","e","r"," ","U","n","i","t","e","d">>
Juve == <<"J","u","v","e">>
Juventus == <<"J","u","v","e","n","t","u","s">>
Arsenal == <<"A","r","s","e","n","a","l">>
ArsenalFC == <<"A","r","s","e","n","a","l"," ","F","C">>
Monaco == <<"M","o","n","a","c","o">>
Barcelona == <<"B","a","r","c","e","l","o","n","a">>
BayernMunchen == <<"B","a","y","e","r","n"," ","M","u_uml","n","c","h","e","n">>

\* The names the merges and keys of the model use, and their normal forms
MemoNames == {ManUtd, ManchesterUnited, Juve, Juventus, ArsenalFC, Arsenal}

\* self.team_normalizer.normalize(name): normalize reads only its argument
\* and the two fields, so its value for a name is computed once.
normalize_memo == [x \in MemoNames |-> normalize(x)]

TeamNormalizerNormalize(name) ==
    IF name \in DOMAIN normalize_memo THEN normalize_memo[name] ELSE normalize(name)

\* Raw team names fed to the normalizer: a base name, possibly between
\* club-form tokens, in the spellings sources use.
NameFronts ==
    {<< >>, <<"F","C"," ">>, <<"A","S"," ","F","C"," ">>}
NameBases ==
    {ManUtd, ManchesterUnited, Juve, Monaco, Barcelona, BayernMunchen, Arsenal}
NameBacks ==
    {<< >>, <<" ","c","f"," ","f","c">>}
\* The names of the alias table as written, in lower case and in capitals
Upper(s) == [i \in DOMAIN s |-> UpperChar(s[i])]
TableNames ==
    UNION {{mappings[i].standard} \cup Range(mappings[i].aliases) : i \in DOMAIN mappings}
TableSpellings == UNION {{n, Lower(n), Upper(n)} : n \in TableNames}

\* Misspelt names close to several names of the table
NearNames ==
    {<<"M","a","n","c","h","e","s","t","e","r"," ","C","i","t">>,
     <<"M","a","n","c","h","e","s","t","e","r"," ","C","t","y">>,
     <<"J","u","v","e","n","t","u","z">>}

RawNames ==
    {f \o b \o e : f \in NameFronts, b \in NameBases, e \in NameBacks}
    \cup {ArsenalFC, Juventus, <<" ","J","u","v","e"," ">>, << >>}
    \cup NearNames
    \cup TableSpellings

----------------------------------------------------------------------------
(* A caller normalizing a name and then the result again                   *)

NInit ==
    /\ team_name \in RawNames
    /\ norm_once = << >>
    /\ norm_twice = << >>
    /\ npc = "start"

CallNormalize ==
    /\ npc = "start"
    /\ norm_once' = normalize(team_name)
    /\ npc' = "once"
    /\ UNCHANGED <<team_name, norm_twice, kvars, mvars, fvars, dvars, avars, gvars, svars, bvars, cvars>>

CallNormalizeAgain ==
    /\ npc = "once"
    /\ norm_twice' = normalize(norm_once)
    /\ npc' = "twice"
    /\ UNCHANGED <<team_name, norm_once, kvars, mvars, fvars, dvars, avars, gvars, svars, bvars, cvars>>

----------------------------------------------------------------------------
(* Dates and DataMerger._create_match_key                                  *)

\* A date value is NaT (also None and NaN: pd.isna is true), a datetime
\* (pd.Timestamp) of a day and an hour, or the ISO text of one ("str").
NaT == [kind |-> "nat", day |-> 0, hour |-> 0]
Timestamp(d, h) == [kind |-> "datetime", day |-> d, hour |-> h]
IsoText(d, h) == [kind |-> "str", day |-> d, hour |-> h]

Digit(n) == Alphabet[Ord("0") + n]
TwoDigits(n) == <<Digit(n \div 10), Digit(n % 10)>>

\* date.strftime('%Y-%m-%d'); the days of the model are days of January 2024
Strftime(date) == <<"2", "0", "2", "4", "-", "0", "1", "-">> \o TwoDigits(date.day)

\* str(date) of an ISO text: 'YYYY-MM-DD hh:00:00'
Str(date) ==
    Strftime(date) \o <<" ">> \o TwoDigits(date.hour) \o <<":", "0", "0", ":", "0", "0">>

\* sorted([home_norm, away_norm]), and the pair left as it comes
UnsortedPair(a, b) == <<a, b>>
SortedPair(a, b) == IF StrLess(b, a) THEN <<b, a>> ELSE <<a, b>>

\* The date part of the key, and one that keeps the hour
DateWithHour(date) ==
    IF date.kind = "nat" THEN <<"u", "n", "k", "n", "o", "w", "n">> ELSE Str(date)
DateWithoutSentinel(date) ==
    IF date.kind = "datetime" THEN Strftime(date) ELSE SubSeq(Str(date), 1, 10)
DateStr(date) ==
    IF date.kind = "nat" THEN <<"u", "n", "k", "n", "o", "w", "n">>
    ELSE IF date.kind = "datetime" THEN Strftime(date)
    ELSE SubSeq(Str(date), 1, 10)

\* f"{date_str}_{teams[0]}_vs_{teams[1]}"
KeyText(date_str, teams) ==
    date_str \o <<"_">> \o teams[1] \o <<"_", "v", "s", "_">> \o teams[2]

\* _create_match_key(date, home_team, away_team); a team name that is None
\* or missing arrives as "" (home_team or '', and normalize of NaN is "").
_create_match_key(date, home_team, away_team) ==
    KeyText(DateStr(date),
            SortedPair(TeamNormalizerNormalize(home_team),
                       TeamNormalizerNormalize(away_team)))

\* Dates and names a caller passes to _create_match_key
KeyDays == {1, 2}
KeyHours == {0, 15, 20}
KeyDates ==
    {NaT} \cup {Timestamp(d, h) : d \in KeyDays, h \in KeyHours}
          \cup {IsoText(d, h) : d \in KeyDays, h \in KeyHours}
KeyNames == {ManUtd, ManchesterUnited, Juve, ArsenalFC, << >>}

KInit ==
    /\ key_date \in KeyDates
    /\ key_home \in KeyNames
    /\ key_away \in KeyNames
    /\ match_key = << >>
    /\ kpc = "start"

CallCreateMatchKey ==
    /\ kpc = "start"
    /\ match_key' = _create_match_key(key_date, key_home, key_away)
    /\ kpc' = "done"
    /\ UNCHANGED <<key_date, key_home, key_away, nvars, mvars, fvars, dvars, avars, gvars, svars, bvars, cvars>>

----------------------------------------------------------------------------
(* Dictionaries and data frames                                            *)

\* A dict or a data frame row is a function from its keys (columns) to
\* values; MISSING stands for NaN, NaT and None.  Values of one column are
\* of one kind, so MISSING is kept out of the function: a row is
\* [na |-> the keys holding MISSING, val |-> the other keys and their values].
Keys(d) == d.na \cup DOMAIN d.val
Has(d, k) == k \in DOMAIN d.val

Put(f, k, v) == [x \in DOMAIN f \cup {k} |-> IF x = k THEN v ELSE f[x]]
Pop(f, k) == [x \in DOMAIN f \ {k} |-> f[x]]
EmptyFcn == [x \in {} |-> x]

\* dict.pop(k, None)
DictPop(d, k) == [na |-> d.na \ {k}, val |-> Pop(d.val, k)]

\* pd.DataFrame(list of dicts): the columns are the union of the keys and a
\* key a dict lacks is MISSING in its row.
Columns(rows) == UNION {Keys(rows[i]) : i \in DOMAIN rows}
DataFrame(dicts) ==
    [i \in DOMAIN dicts |->
        [na |-> Columns(dicts) \ DOMAIN dicts[i].val, val |-> dicts[i].val]]

\* pd.concat(dfs, ignore_index=True, sort=False)
RECURSIVE Flatten(_)
Flatten(dfs) == IF dfs = << >> THEN << >> ELSE Head(dfs) \o Flatten(Tail(dfs))
Concat(dfs) == DataFrame(Flatten(dfs))

\* An xG value is a number (in tenths) or a text float() rejects.
Num(x) == [num |-> TRUE, x |-> x]
Text == [num |-> FALSE, x |-> 0]

\* pd.to_datetime(..., errors='coerce') of the raw date of a record: the
\* text of a date becomes a datetime, anything else NaT.
ToDatetime(v) == IF v.kind = "str" THEN Timestamp(v.day, v.hour) ELSE NaT
Unparseable == [kind |-> "bad", day |-> 0, hour |-> 0]

----------------------------------------------------------------------------
(* DataMerger                                                              *)

\* _normalize_dataframe: names normalized where the column exists (a
\* MISSING name gives ""), dates parsed where the column exists.
NormalizeName(row, col) ==
    IF col \notin Keys(row) THEN row
    ELSE [na |-> row.na \ {col},
          val |-> Put(row.val, col,
                      IF Has(row, col) THEN TeamNormalizerNormalize(row.val[col]) ELSE << >>)]

NormalizeDate(row) ==
    IF ~Has(row, "date") THEN row
    ELSE IF ToDatetime(row.val["date"]).kind = "nat"
         THEN [na |-> row.na \cup {"date"}, val |-> Pop(row.val, "date")]
         ELSE [na |-> row.na, val |-> Put(row.val, "date", ToDatetime(row.val["date"]))]

_normalize_dataframe(df) ==
    [i \in DOMAIN df |->
        NormalizeDate(NormalizeName(NormalizeName(df[i], "home_team"), "away_team"))]

\* source_names[idx] if idx < len(source_names) else f'source_{idx}'
source_names == <<"football_data", "understat", "sofascore">>
MoreSourceNames == <<"source_3", "source_4", "source_5">>
SourceName(idx) ==
    IF idx < Len(source_names) THEN source_names[idx + 1]
    ELSE MoreSourceNames[idx - Len(source_names) + 1]

\* df['_source'] = ...
TagSource(df, name) ==
    [i \in DOMAIN df |->
        [na |-> df[i].na, val |-> Put(df[i].val, "_source", name)]]

\* The frames tagged by their rank among the non-empty lists
NonEmptyLists(srcs, idx) == SelectSeq(SubSeq(srcs, idx + 1, Len(srcs)), LAMBDA s : s # << >>)
CompactedFrames(srcs, idx) ==
    [i \in DOMAIN NonEmptyLists(srcs, idx) |->
        TagSource(_normalize_dataframe(DataFrame(NonEmptyLists(srcs, idx)[i])),
                  SourceName(idx + i - 1))]

\* The loop over the sources: empty lists are skipped, the others become
\* normalized frames tagged by their position idx (0-based).
RECURSIVE SourceFrames(_, _)
SourceFrames(srcs, idx) ==
    IF idx >= Len(srcs) THEN << >>
    ELSE (IF srcs[idx + 1] = << >> THEN << >>
          ELSE <<TagSource(_normalize_dataframe(DataFrame(srcs[idx + 1])),
                           SourceName(idx))>>)
         \o SourceFrames(srcs, idx + 1)

\* row.get(col) as _create_match_key receives it
RowDate(row) == IF Has(row, "date") THEN row.val["date"] ELSE NaT
RowName(row, col) == IF Has(row, col) THEN row.val[col] ELSE << >>

\* combined['_match_key'] = combined.apply(...)
WithMatchKeys(df) ==
    [i \in DOMAIN df |->
        [na |-> df[i].na,
         val |-> Put(df[i].val, "_match_key",
                     _create_match_key(RowDate(df[i]),
                                       RowName(df[i], "home_team"),
                                       RowName(df[i], "away_team")))]]

\* Ascending order of a set of str values (groupby sorts the group keys)
RECURSIVE SortedStrs(_)
SmallestFirst(S, m) == <<m>> \o SortedStrs(S \ {m})
SortedStrs(S) ==
    IF S = {} THEN << >>
    ELSE SmallestFirst(S, CHOOSE x \in S : \A y \in S : ~StrLess(y, x))

GroupKeys(combined) == {combined[i].val["_match_key"] : i \in DOMAIN combined}

\* The row numbers of a group, in frame order
GroupOf(combined, key) ==
    {i \in DOMAIN combined : combined[i].val["_match_key"] = key}

\* source_priority.get(x, 999)
UnknownPriority == 999
DefaultPriority(source, primary) ==      \* the table without the primary entry
    IF source = "football_data" THEN 1
    ELSE IF source = "understat" THEN 2
    ELSE IF source = "sofascore" THEN 3
    ELSE UnknownPriority
Priority(source, primary) ==
    IF source = primary THEN 0
    ELSE IF source = "football_data" THEN 1
    ELSE IF source = "understat" THEN 2
    ELSE IF source = "sofascore" THEN 3
    ELSE UnknownPriority

RowPriority(row, primary) == Priority(row.val["_source"], primary)

\* group.sort_values('_priority'): ascending priority.  The sort is not a
\* stable one, so rows of equal priority come in any order; tie ranks the
\* row numbers of the frame and decides among equals.
Position(tie, i) == CHOOSE p \in DOMAIN tie : tie[p] = i
Before(combined, primary, tie, i, j) ==
    \/ RowPriority(combined[i], primary) < RowPriority(combined[j], primary)
    \/ /\ RowPriority(combined[i], primary) = RowPriority(combined[j], primary)
       /\ Position(tie, i) < Position(tie, j)

RECURSIVE SortValues(_, _, _, _)
FirstThenRest(combined, primary, tie, idxs, first) ==
    <<combined[first]>> \o SortValues(combined, primary, tie, idxs \ {first})
SortValues(combined, primary, tie, idxs) ==
    IF idxs = {} THEN << >>
    ELSE FirstThenRest(combined, primary, tie, idxs,
            CHOOSE i \in idxs :
                \A j \in idxs \ {i} : Before(combined, primary, tie, i, j))

\* Columns and values of the field-by-field merge
TempColumns == {"_source", "_match_key", "_priority"}    \* startswith('_')
CoreColumns == {"match_id", "date", "home_team", "away_team"}
StatColumns == {"home_xg", "away_xg", "home_shots", "away_shots"}
XgColumns == {"home_xg", "away_xg"}                      \* 'xg' in column.lower()

\* pd.notna(value) and value not in [None, '', []]
ValidValue(row, col) ==
    /\ Has(row, col)
    /\ col \in {"home_team", "away_team"} => row.val[col] # << >>
    /\ col \in {"match_id", "competition"} => row.val[col] # ""

\* 'understat' in row['_source']: of the tags merge_matches gives, only
\* the tag understat contains it.
NeverUnderstat(row) == FALSE
IsUnderstat(row) == row.val["_source"] = "understat"

LastValueWins(merged, row, col) ==
    IF ~ValidValue(row, col) THEN merged ELSE Put(merged, col, row.val[col])

\* One row of the loop "for _, row in group.iterrows()" for one column:
\* merged is the dict so far.
MergeValue(merged, row, col) ==
    IF ~ValidValue(row, col) THEN merged
    ELSE IF col \notin DOMAIN merged \/ col \in CoreColumns
         THEN Put(merged, col, row.val[col])
    ELSE IF col \in StatColumns
         THEN IF IsUnderstat(row) /\ col \in XgColumns
              THEN Put(merged, col, row.val[col])
              ELSE merged
    ELSE merged

RECURSIVE MergeColumns(_, _, _)
MergeColumns(merged, row, cols) ==
    IF cols = {} THEN merged
    ELSE LET c == CHOOSE x \in cols : TRUE
         IN  MergeColumns(MergeValue(merged, row, c), row, cols \ {c})

RECURSIVE MergeRows(_, _)
MergeRows(merged, rows) ==
    IF rows = << >> THEN merged
    ELSE MergeRows(MergeColumns(merged, Head(rows), Keys(Head(rows)) \ TempColumns),
                   Tail(rows))

\* float(v)
Convertible(v) == v.num

\* The score part of _calculate_derived_fields, and one with no draw
ScoreFieldsNoDraw(match) ==
    IF "home_score" \in DOMAIN match /\ "away_score" \in DOMAIN match
    THEN Put(Put(Put(match, "total_goals", match["home_score"] + match["away_score"]),
                 "goal_difference", match["home_score"] - match["away_score"]),
             "result", IF match["home_score"] >= match["away_score"] THEN "H" ELSE "A")
    ELSE match
ScoreFields(match) ==
    IF "home_score" \in DOMAIN match /\ "away_score" \in DOMAIN match
    THEN LET h_score == match["home_score"]
             a_score == match["away_score"]
             result == IF h_score > a_score THEN "H"
                       ELSE IF h_score < a_score THEN "A" ELSE "D"
         IN  Put(Put(Put(match, "total_goals", h_score + a_score),
                     "goal_difference", h_score - a_score),
                 "result", result)
    ELSE match

\* The xG part: float() raising ValueError ends the function (the except
\* clause) before either field is set.
XgFields(match) ==
    IF "home_xg" \in DOMAIN match /\ "away_xg" \in DOMAIN match
    THEN LET h_xg == match["home_xg"]
             a_xg == match["away_xg"]
         IN  IF Convertible(h_xg) /\ Convertible(a_xg)
             THEN Put(Put(match, "total_xg", h_xg.x + a_xg.x),
                      "xg_difference", h_xg.x - a_xg.x)
             ELSE match
    ELSE match

\* The dict _calculate_derived_fields works on holds no MISSING value.  A
\* score may be a str instead of a number: such keys are kept out of the
\* function, in text (the characters do not matter).
ScoreKeys == {"home_score", "away_score"}
PlainDict(val) == [text |-> {}, val |-> val]
HasKey(match, k) == k \in match.text \cup DOMAIN match.val
WithVal(match, val) == [text |-> match.text, val |-> val]

\* _calculate_derived_fields(match).  One try block holds both parts: with
\* a str and a number h_score + a_score raises TypeError and the function
\* ends; with two str scores + concatenates them into total_goals and
\* h_score - a_score raises.
_calculate_derived_fields(match) ==
    IF ~(HasKey(match, "home_score") /\ HasKey(match, "away_score"))
    THEN WithVal(match, XgFields(match.val))
    ELSE IF match.text \cap ScoreKeys = {}
    THEN WithVal(match, XgFields(ScoreFields(match.val)))
    ELSE IF ScoreKeys \subseteq match.text
    THEN [text |-> match.text \cup {"total_goals"}, val |-> match.val]
    ELSE match

\* _merge_match_group(group, primary_source); group holds the row numbers
_merge_match_group(combined, group, primary, tie) ==
    [na |-> {},
     val |-> _calculate_derived_fields(
                PlainDict(MergeRows(EmptyFcn, SortValues(combined, primary, tie, group)))).val]

\* The body of the loop over combined.groupby('_match_key') for the group
\* of row numbers group: a group of one row is group.iloc[0].to_dict(),
\* MISSING values included.
GroupMatch(combined, primary, tie, group) ==
    IF Cardinality(group) > 1
    THEN _merge_match_group(combined, group, primary, tie)
    ELSE combined[CHOOSE i \in group : TRUE]

\* merged_match.pop('_source', None); merged_match.pop('_match_key', None)
PopTemporary(merged_match) == DictPop(DictPop(merged_match, "_source"), "_match_key")

MergedMatch(combined, primary, tie, key) ==
    PopTemporary(GroupMatch(combined, primary, tie, GroupOf(combined, key)))

\* The loop over the groups, keys in ascending order: the pairs
\* <<match_key, merged_match>>
MergeGroups(combined, keys, primary, tie) ==
    [g \in DOMAIN keys |-> <<keys[g], MergedMatch(combined, primary, tie, keys[g])>>]

MergeCombined(combined, primary, tie) ==
    MergeGroups(combined, SortedStrs(GroupKeys(combined)), primary, tie)

MergeFrames(dfs, primary, tie) ==
    IF dfs = << >> THEN << >>
    ELSE MergeCombined(WithMatchKeys(Concat(dfs)), primary, tie)

\* merge_matches(*sources, primary_source=primary): the pairs
\* <<match_key, merged_match>> of its loop; it returns the merged_match
\* of each, in this order.
merge_matches(srcs, primary, tie) ==
    IF srcs = << >> THEN << >> ELSE MergeFrames(SourceFrames(srcs, 0), primary, tie)

----------------------------------------------------------------------------
(* merge_matches called on the lists the collectors returned               *)

Dict(na, val) == [na |-> na, val |-> val]

\* Raw match records of the sources.  All describe Manchester United v
\* Juventus unless said otherwise.
RecFull ==          \* a played match, 2-1
    Dict({}, ("match_id" :> "fd1") @@ ("date" :> IsoText(1, 15))
             @@ ("home_team" :> ManUtd) @@ ("away_team" :> Juve)
             @@ ("home_score" :> 2) @@ ("away_score" :> 1))
RecConflict ==      \* same day, other hour, other spellings, 2-2, with xG
    Dict({}, ("match_id" :> "us9") @@ ("date" :> IsoText(1, 20))
             @@ ("home_team" :> ManchesterUnited) @@ ("away_team" :> Juventus)
             @@ ("home_score" :> 2) @@ ("away_score" :> 2)
             @@ ("home_xg" :> Num(15)) @@ ("away_xg" :> Num(5)))
RecSwapped ==       \* same day, home and away exchanged, 1-2, with xG, empty match_id
    Dict({}, ("match_id" :> "") @@ ("date" :> IsoText(1, 15))
             @@ ("home_team" :> Juve) @@ ("away_team" :> ManUtd)
             @@ ("home_score" :> 1) @@ ("away_score" :> 2)
             @@ ("home_xg" :> Num(7)) @@ ("away_xg" :> Num(12)))
RecNextDay ==       \* the day after, 0-0
    Dict({}, ("match_id" :> "fd2") @@ ("date" :> IsoText(2, 15))
             @@ ("home_team" :> ManUtd) @@ ("away_team" :> Juve)
             @@ ("home_score" :> 0) @@ ("away_score" :> 0))
RecUnplayed ==      \* a date that does not parse, scores None, with xG
    Dict({"home_score", "away_score"},
             ("match_id" :> "fd3") @@ ("date" :> Unparseable)
             @@ ("home_team" :> ManchesterUnited) @@ ("away_team" :> Juve)
             @@ ("home_xg" :> Num(3)) @@ ("away_xg" :> Num(4)))
RecTextXg ==        \* 2-1, home_xg a text that is no number
    Dict({}, ("date" :> IsoText(1, 15))
             @@ ("home_team" :> ManUtd) @@ ("away_team" :> Juve)
             @@ ("home_score" :> 2) @@ ("away_score" :> 1)
             @@ ("home_xg" :> Text) @@ ("away_xg" :> Num(9)))
RecOther ==         \* Arsenal FC v Juventus, no date key, home score only
    Dict({}, ("match_id" :> "fd4")
             @@ ("home_team" :> ArsenalFC) @@ ("away_team" :> Juve)
             @@ ("home_score" :> 3))
RecNoHome ==        \* home_team None
    Dict({"home_team"}, ("date" :> IsoText(1, 15)) @@ ("away_team" :> Juve)
             @@ ("home_score" :> 0) @@ ("away_score" :> 2))

RawRecords ==
    {RecFull, RecConflict, RecSwapped, RecNextDay, RecUnplayed, RecTextXg,
     RecOther, RecNoHome}

\* primary_source arguments of the model
PrimaryChoices == {"football_data", "understat"}

MaxSources == 3
MaxRecords == 2

RECURSIVE TotalLen(_)
TotalLen(srcs) == IF srcs = << >> THEN 0 ELSE Len(Head(srcs)) + TotalLen(Tail(srcs))

\* The number of the list each row of the combined frame comes from
RECURSIVE ListOfRows(_, _)
ListOfRows(srcs, idx) ==
    IF idx > Len(srcs) THEN << >>
    ELSE [i \in 1..Len(srcs[idx]) |-> idx] \o ListOfRows(srcs, idx + 1)

\* Rows get the same priority when they come from the same list, or from
\* two lists tagged source_<idx>; only their order is left open by the sort.
SameRank(a, b) == a = b \/ (a > Len(source_names) /\ b > Len(source_names))

Orders(n) == {o \in [1..n -> 1..n] : \A i, j \in 1..n : o[i] = o[j] => i = j}

TieOrdersOf(lists) ==
    {o \in Orders(Len(lists)) :
        \A i, j \in DOMAIN lists :
            i < j /\ ~SameRank(lists[o[i]], lists[o[j]]) => o[i] < o[j]}

TieOrders(srcs) == TieOrdersOf(ListOfRows(srcs, 1))

MInit ==
    /\ sources = << >>
    /\ primary_source = "football_data"
    /\ merged_matches = << >>
    /\ merged_keys = << >>
    /\ mpc = "collect"

\* The caller adds one more source list to the arguments
AddSource ==
    /\ mpc = "collect"
    /\ Len(sources) < MaxSources
    /\ sources' = Append(sources, << >>)
    /\ UNCHANGED <<primary_source, merged_matches, merged_keys, mpc, nvars, kvars, fvars, dvars, avars, gvars, svars, bvars, cvars>>

\* A collector returns one more record in the last list
CollectRecord ==
    /\ mpc = "collect"
    /\ sources # << >>
    /\ TotalLen(sources) < MaxRecords
    /\ \E r \in RawRecords :
          sources' = [sources EXCEPT ![Len(sources)] = Append(@, r)]
    /\ UNCHANGED <<primary_source, merged_matches, merged_keys, mpc, nvars, kvars, fvars, dvars, avars, gvars, svars, bvars, cvars>>

\* merged_matches = merger.merge_matches(*sources, primary_source=p);
\* merged_keys are the group keys in the order of the loop.
Return(out) ==
    /\ merged_matches' = [g \in DOMAIN out |-> out[g][2]]
    /\ merged_keys' = [g \in DOMAIN out |-> out[g][1]]

CallMergeMatches ==
    /\ mpc = "collect"
    /\ \E p \in PrimaryChoices :
        \E tie \in TieOrders(sources) :
          /\ primary_source' = p
          /\ Return(merge_matches(sources, p, tie))
    /\ mpc' = "merged"
    /\ UNCHANGED <<sources, nvars, kvars, fvars, dvars, avars, gvars, svars, bvars, cvars>>

----------------------------------------------------------------------------
(* TemporalFeatureEngineer                                                 *)

\* A feature value: a number kept as a fraction in lowest terms, or NaN.
RECURSIVE GCD(_, _)
GCD(a, b) == IF b = 0 THEN a ELSE GCD(b, a % b)
Fraction(n, d) ==
    IF n = 0 THEN [nan |-> FALSE, num |-> 0, den |-> 1]
    ELSE [nan |-> FALSE, num |-> n \div GCD(n, d), den |-> d \div GCD(n, d)]
NaN == [nan |-> TRUE, num |-> 0, den |-> 1]

\* The column f'last{window}_{name}'; team and total_matches carry window 0.
Col(window, name) == <<window, name>>

\* match.get(col, 0) on a row of the frame: the value, NaN where the row
\* has none, 0 where the frame has no such column.
Get(row, col) ==
    IF col \notin Keys(row) THEN Fraction(0, 1)
    ELSE IF ~Has(row, col) THEN NaN
    ELSE IF col \in XgColumns THEN Fraction(row.val[col].x, 10)
    ELSE Fraction(row.val[col], 1)

\* a > b and a == b on numbers, false when either is NaN
Greater(a, b) == ~a.nan /\ ~b.nan /\ a.num * b.den > b.num * a.den
Equal(a, b) == ~a.nan /\ ~b.nan /\ a.num * b.den = b.num * a.den

\* np.mean(values)
RECURSIVE SumNum(_, _)
SumNum(values, den) ==
    IF values = << >> THEN 0
    ELSE Head(values).num * (den \div Head(values).den) + SumNum(Tail(values), den)
Mean(values) ==
    IF \E i \in DOMAIN values : values[i].nan THEN NaN
    ELSE Fraction(SumNum(values, 10), 10 * Len(values))

\* The team's side of a match
OwnScore(team, match) ==
    IF match.val["home_team"] = team THEN Get(match, "home_score") ELSE Get(match, "away_score")
OtherScore(team, match) ==
    IF match.val["home_team"] = team THEN Get(match, "away_score") ELSE Get(match, "home_score")
OwnXg(team, match) ==
    IF match.val["home_team"] = team THEN Get(match, "home_xg") ELSE Get(match, "away_xg")
OtherXg(team, match) ==
    IF match.val["home_team"] = team THEN Get(match, "away_xg") ELSE Get(match, "home_xg")

TwoForAWin(team, match) ==
    IF Greater(OwnScore(team, match), OtherScore(team, match)) THEN 2
    ELSE IF Equal(OwnScore(team, match), OtherScore(team, match)) THEN 1
    ELSE 0

\* 3 for a win, 1 for a draw, 0 otherwise
Points(team, match) ==
    IF Greater(OwnScore(team, match), OtherScore(team, match)) THEN 3
    ELSE IF Equal(OwnScore(team, match), OtherScore(team, match)) THEN 1
    ELSE 0

\* sum(1 for p in points if p == 3) / len(points)
WinRate(team, recent) ==
    Fraction(Cardinality({i \in DOMAIN recent : Points(team, recent[i]) = 3}), Len(recent))

\* The four columns of one window, and the two xG columns when the frame
\* has a home_xg column
WindowFeatures(team, recent, window) ==
    (Col(window, "goals_scored_avg") :>
        Mean([i \in DOMAIN recent |-> OwnScore(team, recent[i])]))
    @@ (Col(window, "goals_conceded_avg") :>
        Mean([i \in DOMAIN recent |-> OtherScore(team, recent[i])]))
    @@ (Col(window, "points_avg") :>
        Mean([i \in DOMAIN recent |-> Fraction(Points(team, recent[i]), 1)]))
    @@ (Col(window, "win_rate") :> WinRate(team, recent))
    @@ (IF "home_xg" \in Columns(recent)
        THEN (Col(window, "xg_for_avg") :>
                Mean([i \in DOMAIN recent |-> OwnXg(team, recent[i])]))
             @@ (Col(window, "xg_against_avg") :>
                Mean([i \in DOMAIN recent |-> OtherXg(team, recent[i])]))
        ELSE EmptyFcn)

\* team_matches.head(window)
HeadRows(rows, window) ==
    SubSeq(rows, 1, IF window < Len(rows) THEN window ELSE Len(rows))

\* The loop over self.window_sizes
RECURSIVE AllWindows(_, _, _)
AllWindows(team, team_matches, windows) ==
    IF windows = << >> THEN EmptyFcn
    ELSE AllWindows(team, team_matches, Tail(windows))
         @@ WindowFeatures(team, HeadRows(team_matches, Head(windows)), Head(windows))

\* _get_default_features(team)
_get_default_features(team) ==
    (Col(0, "team") :> team) @@ (Col(0, "total_matches") :> 0)
    @@ (Col(5, "goals_scored_avg") :> Fraction(1, 1))
    @@ (Col(5, "goals_conceded_avg") :> Fraction(1, 1))
    @@ (Col(5, "points_avg") :> Fraction(1, 1))
    @@ (Col(5, "win_rate") :> Fraction(33, 100))

\* sort_values('date', ascending=False): the later date first; the sort is
\* not a stable one, tie decides among rows of one date.
Earlier(df, tie, i, j) ==
    \/ df[i].val["date"] < df[j].val["date"]
    \/ df[i].val["date"] = df[j].val["date"] /\ Position(tie, i) < Position(tie, j)
Later(df, tie, i, j) ==
    \/ df[i].val["date"] > df[j].val["date"]
    \/ df[i].val["date"] = df[j].val["date"] /\ Position(tie, i) < Position(tie, j)

RECURSIVE SortByDate(_, _, _)
LatestThenRest(df, tie, idxs, first) ==
    <<df[first]>> \o SortByDate(df, tie, idxs \ {first})
SortByDate(df, tie, idxs) ==
    IF idxs = {} THEN << >>
    ELSE LatestThenRest(df, tie, idxs,
            CHOOSE i \in idxs : \A j \in idxs \ {i} : Later(df, tie, i, j))

\* The rows of the team
TeamRows(team, df) ==
    {i \in DOMAIN df : df[i].val["home_team"] = team \/ df[i].val["away_team"] = team}

\* _calculate_features_for_team(team, historical_df) from the sorted
\* team_matches on
FeaturesOf(team, team_matches, windows) ==
    IF Len(team_matches) = 0 THEN _get_default_features(team)
    ELSE AllWindows(team, team_matches, windows)
         @@ (Col(0, "team") :> team) @@ (Col(0, "total_matches") :> Len(team_matches))

_calculate_features_for_team(team, historical_df, windows, tie) ==
    FeaturesOf(team, SortByDate(historical_df, tie, TeamRows(team, historical_df)), windows)

\* matches_df[matches_df['date'] < date_cutoff]: the rows kept, with all
\* the columns of the frame (a MISSING date is not before the cutoff)
Historical(df, cutoff) ==
    SelectSeq(df, LAMBDA row : Has(row, "date") /\ row.val["date"] < cutoff)

\* pd.concat([historical['home_team'], historical['away_team']]).unique():
\* the teams in the order first met, home column first
RECURSIVE Unique(_, _)
Unique(names, seen) ==
    IF names = << >> THEN << >>
    ELSE IF Head(names) \in seen THEN Unique(Tail(names), seen)
    ELSE <<Head(names)>> \o Unique(Tail(names), seen \cup {Head(names)})

HomeTeamsOnly(historical) ==
    Unique([i \in DOMAIN historical |-> historical[i].val["home_team"]], {})
AllTeams(historical) ==
    Unique([i \in DOMAIN historical |-> historical[i].val["home_team"]]
           \o [i \in DOMAIN historical |-> historical[i].val["away_team"]], {})

\* The loop over all_teams and pd.DataFrame(features_list)
FeatureFrame(historical, all_teams, windows, tie) ==
    DataFrame([t \in DOMAIN all_teams |->
        Dict({}, _calculate_features_for_team(all_teams[t], historical, windows, tie))])

FeaturesOfHistorical(historical, windows, tie) ==
    IF historical = << >> THEN << >>
    ELSE FeatureFrame(historical, AllTeams(historical), windows, tie)

\* create_team_features(matches_df, date_cutoff)
create_team_features(matches_df, cutoff, windows, tie) ==
    FeaturesOfHistorical(Historical(matches_df, cutoff), windows, tie)

----------------------------------------------------------------------------
(* A caller of create_team_features                                        *)

Played(day, home, away, h, a) ==
    Dict({}, ("date" :> day) @@ ("home_team" :> home) @@ ("away_team" :> away)
             @@ ("home_score" :> h) @@ ("away_score" :> a))
WithXg(match, h_xg, a_xg) ==
    Dict(match.na, match.val @@ ("home_xg" :> Num(h_xg)) @@ ("away_xg" :> Num(a_xg)))
Unplayed(day, home, away) ==
    Dict({"home_score", "away_score"},
         ("date" :> day) @@ ("home_team" :> home) @@ ("away_team" :> away))

\* Canonical matches of days 1..3 the corpus is made of
CorpusMatches ==
    { Played(1, Juventus, Arsenal, 2, 0),
      Played(1, Arsenal, Monaco, 1, 1),
      WithXg(Played(2, Monaco, Juventus, 0, 3), 8, 21),
      Unplayed(2, Arsenal, Juventus),
      WithXg(Played(3, Juventus, Barcelona, 1, 0), 15, 5),
      Played(3, Barcelona, Monaco, 2, 2) }

Cutoffs == {2, 3}
WindowChoices == {<<5, 10>>, <<1, 2>>}
MaxMatches == 3

FInit ==
    /\ matches = << >>
    /\ date_cutoff \in Cutoffs
    /\ window_sizes \in WindowChoices
    /\ features = << >>
    /\ fpc = "load"

\* One more match in the corpus
LoadMatch ==
    /\ fpc = "load"
    /\ Len(matches) < MaxMatches
    /\ \E m \in CorpusMatches : matches' = Append(matches, m)
    /\ UNCHANGED <<date_cutoff, window_sizes, features, fpc, nvars, kvars, mvars, dvars, avars, gvars, svars, bvars, cvars>>

\* features = engineer.create_team_features(pd.DataFrame(matches), date_cutoff)
CallCreateTeamFeatures ==
    /\ fpc = "load"
    /\ \E tie \in Orders(Len(Historical(DataFrame(matches), date_cutoff))) :
          features' = create_team_features(DataFrame(matches), date_cutoff,
                                           window_sizes, tie)
    /\ fpc' = "done"
    /\ UNCHANGED <<matches, date_cutoff, window_sizes, nvars, kvars, mvars, dvars, avars, gvars, svars, bvars, cvars>>

----------------------------------------------------------------------------
(* A caller of _calculate_derived_fields: the merged dict of a group holds *)
(* a key only with a valid value                                           *)

MaxScore == 3
ScoreChoices == {<<FALSE, 0>>} \cup {<<TRUE, n>> : n \in 0..MaxScore}
XgChoices == {<<FALSE, Num(0)>>, <<TRUE, Num(5)>>, <<TRUE, Num(12)>>, <<TRUE, Text>>}
Field(key, choice) == IF choice[1] THEN key :> choice[2] ELSE EmptyFcn

MergedVals ==
    { ("match_id" :> "fd1") @@ Field("home_score", h) @@ Field("away_score", a)
        @@ Field("home_xg", hx) @@ Field("away_xg", ax) :
      h \in ScoreChoices, a \in ScoreChoices, hx \in XgChoices, ax \in XgChoices }

MergedDicts ==
    {[text |-> t, val |-> v] : t \in SUBSET ScoreKeys,
                               v \in {m \in MergedVals : DOMAIN m \cap ScoreKeys = {}}}
    \cup {[text |-> {k}, val |-> v] : k \in ScoreKeys,
                                     v \in {m \in MergedVals : Cardinality(DOMAIN m \cap ScoreKeys) = 1}}
    \cup {PlainDict(v) : v \in MergedVals}

DInit ==
    /\ match_in \in MergedDicts
    /\ match_out = PlainDict(EmptyFcn)
    /\ dpc = "start"

CallCalculateDerivedFields ==
    /\ dpc = "start"
    /\ match_out' = _calculate_derived_fields(match_in)
    /\ dpc' = "done"
    /\ UNCHANGED <<match_in, nvars, kvars, mvars, fvars, avars, gvars, svars, bvars, cvars>>

----------------------------------------------------------------------------
(* normalize called with any value                                         *)

\* The values a caller may pass as team_name: None, NaN, a str, an int
PyNone == [kind |-> "None", str |-> << >>, int |-> 0]
PyNaN == [kind |-> "NaN", str |-> << >>, int |-> 0]
PyStr(s) == [kind |-> "str", str |-> s, int |-> 0]
PyInt(n) == [kind |-> "int", str |-> << >>, int |-> n]

\* bool(value) and pd.isna(value)
Truthy(v) ==
    IF v.kind = "None" THEN FALSE
    ELSE IF v.kind = "str" THEN v.str # << >>
    ELSE IF v.kind = "int" THEN v.int # 0
    ELSE TRUE
IsNa(v) == v.kind \in {"None", "NaN"}

\* What a call gives: the value returned, or the exception raised
Returned(value) == [raised |-> "", value |-> value]
Raised(exception) == [raised |-> exception, value |-> << >>]

\* normalize(team_name) for any argument: the guard of line 256, then
\* team_name.strip(), which only a str has
NormalizeArgument(v) ==
    IF ~Truthy(v) \/ IsNa(v) THEN Returned(<< >>)
    ELSE IF v.kind = "str" THEN Returned(normalize(v.str))
    ELSE Raised("AttributeError")

MaxInt == 3
Arguments ==
    {PyNone, PyNaN} \cup {PyInt(n) : n \in 0..MaxInt} \cup {PyStr(s) : s \in RawNames}

AInit ==
    /\ argument \in Arguments
    /\ outcome = Returned(<< >>)
    /\ apc = "start"

CallNormalizeArgument ==
    /\ apc = "start"
    /\ outcome' = NormalizeArgument(argument)
    /\ apc' = "done"
    /\ UNCHANGED <<argument, nvars, kvars, mvars, fvars, dvars, gvars, svars, bvars, cvars>>

----------------------------------------------------------------------------
(* A caller of _merge_match_group: the rows of one match key, as           *)
(* merge_matches tags and groups them                                      *)

\* The tags by position of the list among the arguments
GroupTags == <<"football_data", "understat", "sofascore", "source_3">>
GroupPrimaries == {"football_data", "understat", "source_3"}

\* What a record says in two columns that are neither core nor xG: the
\* competition (absent, '' or a name) and the home shots (absent or a number)
CompetitionChoices == {<<FALSE, "">>, <<TRUE, "">>, <<TRUE, "PL">>, <<TRUE, "EPL">>}
ShotsChoices == {<<FALSE, 0>>, <<TRUE, 5>>, <<TRUE, 9>>}
GroupValues ==
    {<<c, <<FALSE, 0>>>> : c \in CompetitionChoices}
    \cup {<<<<FALSE, "">>, s>> : s \in ShotsChoices}
    \cup {<<<<TRUE, "">>, <<TRUE, 5>>>>, <<<<TRUE, "PL">>, <<TRUE, 9>>>>}

\* A normalized, tagged row of Manchester United v Juventus
GroupRow(tag, competition, shots) ==
    Dict({}, ("date" :> Timestamp(1, 15))
             @@ ("home_team" :> ManchesterUnited) @@ ("away_team" :> Juventus)
             @@ ("_source" :> GroupTags[tag])
             @@ ("_match_key" :> _create_match_key(Timestamp(1, 15), ManchesterUnited, Juventus))
             @@ Field("competition", competition) @@ Field("home_shots", shots))

MaxGroup == 2

\* The tags of the rows of a frame follow the order of the lists
TagLists(n) ==
    {t \in [1..n -> DOMAIN GroupTags] : \A i, j \in 1..n : i < j => t[i] <= t[j]}

GroupFrames(n) ==
    {DataFrame([i \in 1..n |-> GroupRow(t[i], v[i][1], v[i][2])]) :
        t \in TagLists(n), v \in [1..n -> GroupValues]}

GInit ==
    /\ \E n \in 2..MaxGroup : group_rows \in GroupFrames(n)
    /\ group_primary \in GroupPrimaries
    /\ group_merged = Dict({}, EmptyFcn)
    /\ gpc = "start"

\* merged_match = self._merge_match_group(group, primary_source)
CallMergeMatchGroup ==
    /\ gpc = "start"
    /\ \E tie \in Orders(Len(group_rows)) :
          group_merged' = _merge_match_group(group_rows, DOMAIN group_rows,
                                             group_primary, tie)
    /\ gpc' = "done"
    /\ UNCHANGED <<group_rows, group_primary, nvars, kvars, mvars, fvars, dvars, avars, svars, bvars, cvars>>

----------------------------------------------------------------------------
(* DataStorage                                                             *)

\* A value bound to a column of the matches table: NULL (None and NaN bind
\* as NULL) or a value.
Null == [null |-> TRUE, text |-> << >>]
TextOf(s) == [null |-> FALSE, text |-> s]
NullInt == [null |-> TRUE, n |-> 0]
IntOf(n) == [null |-> FALSE, n |-> n]

\* str.replace('-', '') and str.replace(' ', '_')
Remove(s, c) == SelectSeq(s, LAMBDA x : x # c)
Replace(s, old, new) == [i \in DOMAIN s |-> IF s[i] = old THEN new ELSE s[i]]

\* str(match.get('date', ''))[:10]: the date of a merged record is a
\* pd.Timestamp or NaT
DateText(match) ==
    IF "date" \notin Keys(match) THEN << >>
    ELSE IF ~Has(match, "date") THEN <<"N", "a", "T">>
    ELSE SubSeq(Str(match.val["date"]), 1, 10)

\* match.get(col, '').replace(' ', '_') raises AttributeError on None and NaN
TeamRaises(match, col) == col \in Keys(match) /\ ~Has(match, col)
TeamText(match, col) ==
    IF col \notin Keys(match) THEN << >> ELSE Replace(match.val[col], " ", "_")

\* _generate_match_id(match), where it does not raise
_generate_match_id(match) ==
    Remove(DateText(match), "-") \o <<"_">> \o TeamText(match, "home_team")
        \o <<"_", "v", "s", "_">> \o TeamText(match, "away_team")
GenerateRaises(match) == TeamRaises(match, "home_team") \/ TeamRaises(match, "away_team")

\* match.get('match_id', self._generate_match_id(match)): the value under
\* the key where the dict has the key, whatever the value
MatchId(match) ==
    IF "match_id" \notin Keys(match) THEN TextOf(_generate_match_id(match))
    ELSE IF Has(match, "match_id") THEN TextOf(match.val["match_id"])
    ELSE Null

\* date_str
DateStored(match) ==
    IF "date" \notin Keys(match)
    THEN <<"1", "9", "0", "0", "-", "0", "1", "-", "0", "1", " ",
           "0", "0", ":", "0", "0", ":", "0", "0">>
    ELSE IF ~Has(match, "date") THEN <<"N", "a", "T">>
    ELSE Str(match.val["date"])

\* match.get(col) bound to a TEXT column
TextColumn(match, col) == IF Has(match, col) THEN TextOf(match.val[col]) ELSE Null

\* int(score), None where the key is absent or int() raises (NaN)
ScoreColumn(match, col) == IF Has(match, col) THEN IntOf(match.val[col]) ELSE NullInt

\* float(xg) in tenths, 0.0 where float() raises, NULL for None and NaN
XgColumn(match, col) ==
    IF ~Has(match, col) THEN NullInt
    ELSE IF Convertible(match.val[col]) THEN IntOf(match.val[col].x)
    ELSE IntOf(0)

\* The row of the INSERT; created_at is CURRENT_TIMESTAMP
RowOf(match, source, now) ==
    [match_id |-> MatchId(match),
     date |-> DateStored(match),
     home_team |-> TextColumn(match, "home_team"),
     away_team |-> TextColumn(match, "away_team"),
     home_score |-> ScoreColumn(match, "home_score"),
     away_score |-> ScoreColumn(match, "away_score"),
     home_xg |-> XgColumn(match, "home_xg"),
     away_xg |-> XgColumn(match, "away_xg"),
     competition |-> TextColumn(match, "competition"),
     season |-> TextColumn(match, "season"),
     source |-> source,
     raw_data |-> match,
     created_at |-> now]

\* NOT NULL of home_team and away_team (date_str is never None)
NotNullFails(row) == row.home_team.null \/ row.away_team.null

\* INSERT OR REPLACE: the row of the same non-NULL match_id is deleted and
\* the new row added; NULL keys never conflict (TEXT PRIMARY KEY).
Conflict(old, row) ==
    ~old.match_id.null /\ ~row.match_id.null /\ old.match_id.text = row.match_id.text
InsertOrReplace(rows, row) ==
    Append(SelectSeq(rows, LAMBDA old : ~Conflict(old, row)), row)

\* The loop of save_matches from the i-th match on.  An exception is
\* caught, logged with match_id and the match skipped; where match_id is
\* not bound yet (the exception comes from _generate_match_id on the first
\* iteration) the log statement raises and the call ends without commit.
RECURSIVE SaveLoop(_, _, _, _, _, _, _)
SaveLoop(committed, rows, list, i, bound, source, now) ==
    IF i > Len(list) THEN rows
    ELSE IF GenerateRaises(list[i])
    THEN IF bound THEN SaveLoop(committed, rows, list, i + 1, bound, source, now)
         ELSE committed
    ELSE IF NotNullFails(RowOf(list[i], source, now))
    THEN SaveLoop(committed, rows, list, i + 1, TRUE, source, now)
    ELSE SaveLoop(committed, InsertOrReplace(rows, RowOf(list[i], source, now)),
                  list, i + 1, TRUE, source, now)

\* save_matches(matches, source) on the table rows at time now
save_matches(rows, list, source, now) ==
    IF list = << >> THEN rows ELSE SaveLoop(rows, rows, list, 1, FALSE, source, now)

----------------------------------------------------------------------------
(* The caller of save_matches: the merged records of one run after the     *)
(* other, a run possibly repeated                                          *)

Stored(day, home, away, h, a) ==
    Dict({}, ("date" :> Timestamp(day, 15)) @@ ("home_team" :> home)
             @@ ("away_team" :> away) @@ ("home_score" :> h) @@ ("away_score" :> a))
WithId(match, id) == Dict(match.na, match.val @@ ("match_id" :> id))
WithNaNId(match) == Dict(match.na \cup {"match_id"}, match.val)

\* Merged records as merge_matches returns them: with the match_id of a
\* source, with none (no such column, or a group of several rows none of
\* which has one), with NaN (a single row of a frame that has the column)
\* or '' (a single row with ''), and one without home_team
StoredRecords ==
    { WithId(Stored(1, ManchesterUnited, Juventus, 2, 1), <<"f", "d", "1">>),
      WithId(Stored(1, ManchesterUnited, Juventus, 2, 2), <<"f", "d", "1">>),
      Stored(1, Arsenal, Juventus, 1, 0),
      Stored(1, Arsenal, Juventus, 1, 1),
      WithNaNId(Stored(2, Arsenal, Monaco, 0, 0)),
      WithId(Stored(2, Monaco, Juventus, 0, 3), << >>),
      WithId(Stored(3, Barcelona, Monaco, 2, 2), << >>),
      Dict({}, ("date" :> Timestamp(3, 15)) @@ ("away_team" :> Juventus)) }

MaxList == 2
MaxRows == 2
MaxClock == 1

SInit ==
    /\ db_rows = << >>
    /\ db_before = << >>
    /\ saved_list = << >>
    /\ prev_list = << >>
    /\ clock = 0
    /\ spc = "collect"

\* One more merged record in the list of the run
AddMerged ==
    /\ spc = "collect"
    /\ Len(saved_list) < MaxList
    /\ \E m \in StoredRecords : saved_list' = Append(saved_list, m)
    /\ UNCHANGED <<db_rows, db_before, prev_list, clock, spc, nvars, kvars, mvars, fvars, dvars, avars, gvars, bvars, cvars>>

\* storage.save_matches(merged_matches, source='merged')
CallSaveMatches ==
    /\ spc = "collect"
    /\ Len(db_rows) < MaxRows
    /\ db_before' = db_rows
    /\ db_rows' = save_matches(db_rows, saved_list, "merged", clock)
    /\ spc' = "saved"
    /\ UNCHANGED <<saved_list, prev_list, clock, nvars, kvars, mvars, fvars, dvars, avars, gvars, bvars, cvars>>

\* The same list saved once more
SaveAgain ==
    /\ spc = "saved"
    /\ Len(db_rows) < MaxRows
    /\ prev_list' = saved_list
    /\ db_before' = db_rows
    /\ db_rows' = save_matches(db_rows, saved_list, "merged", clock)
    /\ UNCHANGED <<saved_list, clock, spc, nvars, kvars, mvars, fvars, dvars, avars, gvars, bvars, cvars>>

\* The next run starts its list
NextRun ==
    /\ spc = "saved"
    /\ prev_list' = saved_list
    /\ saved_list' = << >>
    /\ spc' = "collect"
    /\ UNCHANGED <<db_rows, db_before, clock, nvars, kvars, mvars, fvars, dvars, avars, gvars, bvars, cvars>>

\* Time passes (CURRENT_TIMESTAMP)
Tick ==
    /\ clock < MaxClock
    /\ clock' = clock + 1
    /\ UNCHANGED <<db_rows, db_before, saved_list, prev_list, spc, nvars, kvars, mvars, fvars, dvars, avars, gvars, bvars, cvars>>

----------------------------------------------------------------------------
(* TeamNameNormalizer.find_best_match                                      *)

\* 0.8 of find_best_match, in hundredths
BestMatchThreshold == 80

\* Optional[str]: None or a candidate
NoMatch == [found |-> FALSE, name |-> << >>]
Match(candidate) == [found |-> TRUE, name |-> candidate]

\* score > best_score on two ratios, and a loop that lets an equal score win
ScoreAtLeast(score, best_score) == score[1] * best_score[2] >= best_score[1] * score[2]
ScoreGreater(score, best_score) == score[1] * best_score[2] > best_score[1] * score[2]

\* The loop over candidates from the i-th on
RECURSIVE BestMatchLoop(_, _, _, _, _)
BestMatchStep(normalized_target, names, i, best, best_score, score) ==
    IF ScoreGreater(score, best_score) /\ RatioAbove(score, BestMatchThreshold)
    THEN BestMatchLoop(normalized_target, names, i + 1, Match(names[i]), score)
    ELSE BestMatchLoop(normalized_target, names, i + 1, best, best_score)
BestMatchLoop(normalized_target, names, i, best, best_score) ==
    IF i > Len(names) THEN best
    ELSE BestMatchStep(normalized_target, names, i, best, best_score,
                       _similarity(normalized_target, TeamNormalizerNormalize(names[i])))

\* find_best_match(team_name, candidates)
find_best_match(name, names) ==
    IF name = << >> \/ names = << >> THEN NoMatch
    ELSE BestMatchLoop(TeamNormalizerNormalize(name), names, 1, NoMatch, <<0, 1>>)

----------------------------------------------------------------------------
(* A caller of find_best_match                                             *)

Lille == <<"L","i","l","l","e">>
Lillo == <<"L","i","l","l","o">>
Arsenals == <<"A","r","s","e","n","a","l","s">>
FCArsenal == <<"F","C"," ","A","r","s","e","n","a","l">>

TargetNames == {Arsenal, Lille, << >>}
CandidateNames == {ArsenalFC, FCArsenal, Arsenals, Lillo}
MaxCandidates == 2

BInit ==
    /\ target_name \in TargetNames
    /\ candidates = << >>
    /\ best_match = NoMatch
    /\ bpc = "collect"

\* One more candidate in the list
AddCandidate ==
    /\ bpc = "collect"
    /\ Len(candidates) < MaxCandidates
    /\ \E c \in CandidateNames : candidates' = Append(candidates, c)
    /\ UNCHANGED <<target_name, best_match, bpc, nvars, kvars, mvars, fvars, dvars, avars, gvars, svars, cvars>>

CallFindBestMatch ==
    /\ bpc = "collect"
    /\ best_match' = find_best_match(target_name, candidates)
    /\ bpc' = "done"
    /\ UNCHANGED <<target_name, candidates, nvars, kvars, mvars, fvars, dvars, avars, gvars, svars, cvars>>

----------------------------------------------------------------------------
(* BaseDataCollector                                                       *)

\* The (url, params) pairs of the model, one cache file each
Requests == {"matches", "competitions"}

\* A cache file: absent, or the JSON of a response written at mtime
NoFile == [exists |-> FALSE, data |-> "", mtime |-> 0]
File(data, mtime) == [exists |-> TRUE, data |-> data, mtime |-> mtime]

\* What _make_request has returned: nothing yet, data, None, or an
\* exception that left the call
Pending == [kind |-> "pending", data |-> ""]
ReturnedData(data) == [kind |-> "data", data |-> data]
ReturnedNone == [kind |-> "none", data |-> ""]
RaisedError(exception) == [kind |-> "raised", data |-> exception]

\* The JSON objects a server answers with
Payloads == {"a", "b"}

\* The Retry-After header of a 429 reply: absent, a number of seconds, or
\* an HTTP date
NoHeader == [present |-> FALSE, seconds |-> TRUE, value |-> 0]
Seconds(n) == [present |-> TRUE, seconds |-> TRUE, value |-> n]
HttpDate == [present |-> TRUE, seconds |-> FALSE, value |-> 0]
RetryAfterHeaders == {NoHeader, Seconds(0), Seconds(1), HttpDate}

\* self.rate_limit of FootballDataCollector, in seconds
rate_limit == 1

\* file_age > max_age_seconds, and a test that also rejects the age max_age_seconds
NotYounger(file_age, max_age_seconds) == file_age >= max_age_seconds
TooOld(file_age, max_age_seconds) == file_age > max_age_seconds

\* _load_from_cache: [found |-> FALSE] stands for None
NotLoaded == [found |-> FALSE, data |-> ""]
Loaded(data) == [found |-> TRUE, data |-> data]
_load_from_cache(cache_file, max_age_seconds, time) ==
    IF ~cache_file.exists THEN NotLoaded
    ELSE IF TooOld(time - cache_file.mtime, max_age_seconds) THEN NotLoaded
    ELSE Loaded(cache_file.data)

\* if use_cache and cache_file.exists(): cached_data = ...
CachedData(files, cache_key, with_cache, max_age_seconds, time) ==
    IF with_cache /\ files[cache_key].exists
    THEN _load_from_cache(files[cache_key], max_age_seconds, time)
    ELSE NotLoaded

\* _save_to_cache
_save_to_cache(files, cache_key, data, time) ==
    [files EXCEPT ![cache_key] = File(data, time)]

\* response.headers.get('Retry-After', 60), and whether int() accepts it
DefaultRetryAfter == 60
RetryAfterValue(header) == IF header.present THEN header.value ELSE DefaultRetryAfter
IntRaises(header) == header.present /\ ~header.seconds

\* The seconds _rate_limit sleeps
SleepTime(time, last) == IF time - last < rate_limit THEN rate_limit - (time - last) ELSE 0

----------------------------------------------------------------------------
(* A collector calling _make_request                                       *)

CacheTtls == {1, 3600}
MaxTime == 3
MaxRetries == 2

CInit ==
    /\ cache = [k \in Requests |-> NoFile]
    /\ cache_at_call = [k \in Requests |-> NoFile]
    /\ last_request_time = 0
    /\ last_at_call = 0
    /\ time_now = rate_limit
    /\ time_at_call = 0
    /\ request = "matches"
    /\ use_cache = FALSE
    /\ cache_ttl = 3600
    /\ retries = 0
    /\ sent = 0
    /\ status_code = "none"
    /\ call_result = Pending
    /\ cpc = "ready"

\* A second passes between two calls
TimePasses ==
    /\ cpc = "ready"
    /\ time_now < MaxTime
    /\ time_now' = time_now + 1
    /\ UNCHANGED <<cache, last_request_time, request, use_cache, cache_ttl, retries, sent,
                   status_code, call_result, cache_at_call, last_at_call, time_at_call, cpc,
                   nvars, kvars, mvars, fvars, dvars, avars, gvars, svars, bvars>>

\* self._make_request(url, params, use_cache, cache_ttl) is entered
CallMakeRequest ==
    /\ cpc = "ready"
    /\ time_now <= MaxTime
    /\ request' \in Requests
    /\ use_cache' \in BOOLEAN
    /\ cache_ttl' \in CacheTtls
    /\ cache_at_call' = cache
    /\ last_at_call' = last_request_time
    /\ time_at_call' = time_now
    /\ retries' = 0
    /\ sent' = 0
    /\ status_code' = "none"
    /\ call_result' = Pending
    /\ cpc' = "cache"
    /\ UNCHANGED <<cache, last_request_time, time_now,
                   nvars, kvars, mvars, fvars, dvars, avars, gvars, svars, bvars>>

\* The cache is tried first: a hit returns cached_data
TryCache ==
    /\ cpc = "cache"
    /\ IF CachedData(cache, request, use_cache, cache_ttl, time_now).found
       THEN /\ call_result' = ReturnedData(CachedData(cache, request, use_cache, cache_ttl, time_now).data)
            /\ cpc' = "done"
       ELSE /\ call_result' = call_result
            /\ cpc' = "limit"
    /\ UNCHANGED <<cache, last_request_time, time_now, request, use_cache, cache_ttl, retries,
                   sent, status_code, cache_at_call, last_at_call, time_at_call,
                   nvars, kvars, mvars, fvars, dvars, avars, gvars, svars, bvars>>

\* self._rate_limit(): sleeps what is left of rate_limit seconds since the
\* last request and notes the time
RateLimit ==
    /\ cpc = "limit"
    /\ time_now' = time_now + SleepTime(time_now, last_request_time)
    /\ last_request_time' = time_now'
    /\ cpc' = "get"
    /\ UNCHANGED <<cache, request, use_cache, cache_ttl, retries, sent, status_code,
                   call_result, cache_at_call, last_at_call, time_at_call,
                   nvars, kvars, mvars, fvars, dvars, avars, gvars, svars, bvars>>

\* session.get answers 200: the data is saved when use_cache and returned
Reply200 ==
    /\ cpc = "get"
    /\ \E data \in Payloads :
          /\ cache' = IF use_cache THEN _save_to_cache(cache, request, data, time_now)
                      ELSE cache
          /\ call_result' = ReturnedData(data)
    /\ sent' = sent + 1
    /\ status_code' = "200"
    /\ cpc' = "done"
    /\ UNCHANGED <<last_request_time, time_now, request, use_cache, cache_ttl, retries,
                   cache_at_call, last_at_call, time_at_call,
                   nvars, kvars, mvars, fvars, dvars, avars, gvars, svars, bvars>>

\* session.get answers 429: int() of the Retry-After header, the sleep and
\* the call of _make_request with the same arguments
Reply429 ==
    /\ cpc = "get"
    /\ retries < MaxRetries
    /\ \E header \in RetryAfterHeaders :
          IF IntRaises(header)
          THEN /\ call_result' = RaisedError("ValueError")
               /\ cpc' = "done"
               /\ UNCHANGED <<time_now, retries>>
          ELSE /\ time_now' = time_now + RetryAfterValue(header)
               /\ retries' = retries + 1
               /\ cpc' = "cache"
               /\ UNCHANGED call_result
    /\ sent' = sent + 1
    /\ status_code' = "429"
    /\ UNCHANGED <<cache, last_request_time, request, use_cache, cache_ttl,
                   cache_at_call, last_at_call, time_at_call,
                   nvars, kvars, mvars, fvars, dvars, avars, gvars, svars, bvars>>

\* session.get answers with another status: None
ReplyOther ==
    /\ cpc = "get"
    /\ sent' = sent + 1
    /\ status_code' = "500"
    /\ call_result' = ReturnedNone
    /\ cpc' = "done"
    /\ UNCHANGED <<cache, last_request_time, time_now, request, use_cache, cache_ttl, retries,
                   cache_at_call, last_at_call, time_at_call,
                   nvars, kvars, mvars, fvars, dvars, avars, gvars, svars, bvars>>

\* session.get raises a RequestException: None
RequestFails ==
    /\ cpc = "get"
    /\ sent' = sent + 1
    /\ status_code' = "exception"
    /\ call_result' = ReturnedNone
    /\ cpc' = "done"
    /\ UNCHANGED <<cache, last_request_time, time_now, request, use_cache, cache_ttl, retries,
                   cache_at_call, last_at_call, time_at_call,
                   nvars, kvars, mvars, fvars, dvars, avars, gvars, svars, bvars>>

\* The collector goes on after the call
CallerGoesOn ==
    /\ cpc = "done"
    /\ cpc' = "ready"
    /\ UNCHANGED <<cache, last_request_time, time_now, request, use_cache, cache_ttl, retries,
                   sent, status_code, call_result, cache_at_call, last_at_call, time_at_call,
                   nvars, kvars, mvars, fvars, dvars, avars, gvars, svars, bvars>>

----------------------------------------------------------------------------
(* Specifications                                                          *)

NIdle == team_name = << >> /\ norm_once = << >> /\ norm_twice = << >> /\ npc = "idle"
KIdle == key_date = NaT /\ key_home = << >> /\ key_away = << >> /\ match_key = << >> /\ kpc = "idle"
MIdle == sources = << >> /\ primary_source = "football_data" /\ merged_matches = << >> /\ merged_keys = << >> /\ mpc = "idle"
FIdle == matches = << >> /\ date_cutoff = 0 /\ window_sizes = << >> /\ features = << >> /\ fpc = "idle"
DIdle == match_in = PlainDict(EmptyFcn) /\ match_out = PlainDict(EmptyFcn) /\ dpc = "idle"
AIdle == argument = PyNone /\ outcome = Returned(<< >>) /\ apc = "idle"
GIdle == group_rows = << >> /\ group_primary = "football_data" /\ group_merged = Dict({}, EmptyFcn) /\ gpc = "idle"
BIdle == target_name = << >> /\ candidates = << >> /\ best_match = NoMatch /\ bpc = "idle"
CIdle ==
    /\ cache = [k \in Requests |-> NoFile] /\ cache_at_call = [k \in Requests |-> NoFile]
    /\ last_request_time = 0 /\ last_at_call = 0 /\ time_now = 0
    /\ request = "matches" /\ use_cache = FALSE /\ cache_ttl = 0
    /\ retries = 0 /\ sent = 0 /\ status_code = "none" /\ call_result = Pending
    /\ time_at_call = 0 /\ cpc = "idle"
SIdle == db_rows = << >> /\ db_before = << >> /\ saved_list = << >> /\ prev_list = << >> /\ clock = 0 /\ spc = "idle"

InitNormalize == NInit /\ KIdle /\ MIdle /\ FIdle /\ DIdle /\ AIdle /\ GIdle /\ SIdle /\ BIdle /\ CIdle
NextNormalize == CallNormalize \/ CallNormalizeAgain
SpecNormalize == InitNormalize /\ [][NextNormalize]_vars

InitMatchKey == KInit /\ NIdle /\ MIdle /\ FIdle /\ DIdle /\ AIdle /\ GIdle /\ SIdle /\ BIdle /\ CIdle
NextMatchKey == CallCreateMatchKey
SpecMatchKey == InitMatchKey /\ [][NextMatchKey]_vars

InitMerge == MInit /\ NIdle /\ KIdle /\ FIdle /\ DIdle /\ AIdle /\ GIdle /\ SIdle /\ BIdle /\ CIdle
NextMerge == AddSource \/ CollectRecord \/ CallMergeMatches
SpecMerge == InitMerge /\ [][NextMerge]_vars

InitDerived == DInit /\ NIdle /\ KIdle /\ MIdle /\ FIdle /\ AIdle /\ GIdle /\ SIdle /\ BIdle /\ CIdle
NextDerived == CallCalculateDerivedFields
SpecDerived == InitDerived /\ [][NextDerived]_vars

InitFeatures == FInit /\ NIdle /\ KIdle /\ MIdle /\ DIdle /\ AIdle /\ GIdle /\ SIdle /\ BIdle /\ CIdle
NextFeatures == LoadMatch \/ CallCreateTeamFeatures
SpecFeatures == InitFeatures /\ [][NextFeatures]_vars

InitArgument == AInit /\ NIdle /\ KIdle /\ MIdle /\ FIdle /\ DIdle /\ GIdle /\ SIdle /\ BIdle /\ CIdle
NextArgument == CallNormalizeArgument
SpecArgument == InitArgument /\ [][NextArgument]_vars


InitGroup == GInit /\ NIdle /\ KIdle /\ MIdle /\ FIdle /\ DIdle /\ AIdle /\ SIdle /\ BIdle /\ CIdle
NextGroup == CallMergeMatchGroup
SpecGroup == InitGroup /\ [][NextGroup]_vars

InitStorage == SInit /\ NIdle /\ KIdle /\ MIdle /\ FIdle /\ DIdle /\ AIdle /\ GIdle /\ BIdle /\ CIdle
NextStorage == AddMerged \/ CallSaveMatches \/ SaveAgain \/ NextRun \/ Tick
SpecStorage == InitStorage /\ [][NextStorage]_vars

InitBestMatch == BInit /\ NIdle /\ KIdle /\ MIdle /\ FIdle /\ DIdle /\ AIdle /\ GIdle /\ SIdle /\ CIdle
NextBestMatch == AddCandidate \/ CallFindBestMatch
SpecBestMatch == InitBestMatch /\ [][NextBestMatch]_vars

InitCollector == CInit /\ NIdle /\ KIdle /\ MIdle /\ FIdle /\ DIdle /\ AIdle /\ GIdle /\ SIdle /\ BIdle
NextCollector ==
    \/ TimePasses
    \/ CallMakeRequest
    \/ TryCache
    \/ RateLimit
    \/ Reply200
    \/ Reply429
    \/ ReplyOther
    \/ RequestFails
    \/ CallerGoesOn
SpecCollector == InitCollector /\ [][NextCollector]_vars
----------------------------------------------------------------------------
(* Properties of merge_matches                                             *)

\* The tagged rows of the combined frame of the call, with their keys
TaggedRows == WithMatchKeys(Concat(SourceFrames(sources, 0)))

\* The rows behind the g-th returned record
GroupRows(combined, g) == GroupOf(combined, merged_keys[g])

\* The rows that supply a valid value of a column, and the values
Supplying(combined, rows, col) == {i \in rows : ValidValue(combined[i], col)}
ValuesIn(combined, rows, col) ==
    {combined[i].val[col] : i \in Supplying(combined, rows, col)}

\* The rows carrying a tag
TaggedAs(combined, rows, tag) == {i \in rows : combined[i].val["_source"] = tag}

\* The highest-ranked rows among those that supply the column
TopSupplying(combined, rows, col) ==
    {i \in Supplying(combined, rows, col) :
        \A j \in Supplying(combined, rows, col) :
            RowPriority(combined[i], primary_source) <= RowPriority(combined[j], primary_source)}

ResultOf(h, a) == IF h > a THEN "H" ELSE IF h < a THEN "A" ELSE "D"
DerivedKeys == {"result", "total_goals", "goal_difference"}

PrimaryScoreWins(combined, rows, merged_match, col) ==
    Supplying(combined, TaggedAs(combined, rows, primary_source), col) # {} =>
        /\ Has(merged_match, col)
        /\ merged_match.val[col] \in
              ValuesIn(combined, TaggedAs(combined, rows, primary_source), col)

PrimaryWinsIn(combined, rows, merged_match) ==
    Cardinality(rows) > 1 =>
        /\ PrimaryScoreWins(combined, rows, merged_match, "home_score")
        /\ PrimaryScoreWins(combined, rows, merged_match, "away_score")
        /\ Has(merged_match, "home_score") /\ Has(merged_match, "away_score") =>
              /\ Has(merged_match, "result")
              /\ merged_match.val["result"] =
                    ResultOf(merged_match.val["home_score"], merged_match.val["away_score"])

PrimaryWinsAll(combined) ==
    \A g \in DOMAIN merged_matches :
        PrimaryWinsIn(combined, GroupRows(combined, g), merged_matches[g])

\* C2: when several records of one match key disagree on a score, the
\* merged record carries the score of a record tagged primary_source,
\* wherever the list of that source stands among the arguments (the tags go
\* by position), and its result follows the scores it carries.
PrimarySourceWinsConflict == mpc = "merged" => PrimaryWinsAll(TaggedRows)

\* Understat is primary and passed second, with 2-1 against the 2-2 of the
\* first list: the merged record says away_score = 1 and result H.
PrimaryPassedSecondWins ==
    /\ mpc = "merged"
    /\ primary_source = "understat"
    /\ sources = <<<<RecConflict>>, <<RecFull>>>>
    /\ Len(merged_matches) = 1
    /\ merged_matches[1].val["away_score"] = 1
    /\ merged_matches[1].val["result"] = "H"

CoreFromTop(combined, rows, merged_match, col) ==
    Supplying(combined, rows, col) # {} =>
        /\ Has(merged_match, col)
        /\ merged_match.val[col] \in
              ValuesIn(combined, TopSupplying(combined, rows, col), col)

CoreFromTopAll(combined) ==
    \A g \in DOMAIN merged_matches :
        Cardinality(GroupRows(combined, g)) > 1 =>
            \A col \in CoreColumns :
                CoreFromTop(combined, GroupRows(combined, g), merged_matches[g], col)

\* C3: in a merged group of two or more records each of match_id, date,
\* home_team and away_team is the value of the highest-ranked record that
\* has it; a lower-ranked record never overwrites it.
CoreFieldsFromHighestRanked == mpc = "merged" => CoreFromTopAll(TaggedRows)

\* C4: every returned record with both scores present carries result,
\* total_goals and goal_difference, whether its group had one record or
\* several.
DerivedFieldsOnEveryRecord ==
    mpc = "merged" =>
        \A g \in DOMAIN merged_matches :
            Has(merged_matches[g], "home_score") /\ Has(merged_matches[g], "away_score") =>
                DerivedKeys \subseteq DOMAIN merged_matches[g].val

XgFromUnderstat(combined, rows, merged_match, col) ==
    IF Supplying(combined, TaggedAs(combined, rows, "understat"), col) # {}
    THEN /\ Has(merged_match, col)
         /\ merged_match.val[col] \in
               ValuesIn(combined, TaggedAs(combined, rows, "understat"), col)
    ELSE IF Supplying(combined, rows, col) # {}
    THEN /\ Has(merged_match, col)
         /\ merged_match.val[col] \in
               ValuesIn(combined, TopSupplying(combined, rows, col), col)
    ELSE col \notin Keys(merged_match)

XgFromUnderstatAll(combined) ==
    \A g \in DOMAIN merged_matches :
        Cardinality(GroupRows(combined, g)) > 1 =>
            \A col \in XgColumns :
                XgFromUnderstat(combined, GroupRows(combined, g), merged_matches[g], col)

\* C8: in a merged group home_xg and away_xg are those of a record tagged
\* understat when one supplies the field, whatever its rank; when none
\* does, they are those of the highest-ranked record that has the field.
XgOverrideFromUnderstat == mpc = "merged" => XgFromUnderstatAll(TaggedRows)

\* football_data is primary and supplies home_xg, the understat record
\* supplies another home_xg: the merged record has the one of understat.
UnderstatXgBeatsPrimary ==
    /\ mpc = "merged"
    /\ primary_source = "football_data"
    /\ Len(merged_matches) = 1
    /\ Len(TaggedRows) = 2
    /\ TaggedRows[1].val["_source"] = "football_data"
    /\ TaggedRows[2].val["_source"] = "understat"
    /\ Has(TaggedRows[1], "home_xg") /\ Has(TaggedRows[2], "home_xg")
    /\ TaggedRows[1].val["home_xg"] # TaggedRows[2].val["home_xg"]
    /\ merged_matches[1].val["home_xg"] = TaggedRows[2].val["home_xg"]

\* What a match key stands for: the day and the unordered pair of
\* canonical names
CanonicalPair(home_team, away_team) ==
    {TeamNormalizerNormalize(home_team), TeamNormalizerNormalize(away_team)}
Identity(row) ==
    <<IF Has(row, "date") THEN row.val["date"].day ELSE 0,
      CanonicalPair(RowName(row, "home_team"), RowName(row, "away_team"))>>
Identities(combined) == {Identity(combined[i]) : i \in DOMAIN combined}

OneRecordPerKey(combined) ==
    /\ Len(merged_matches) = Cardinality(Identities(combined))
    /\ Len(merged_matches) = Cardinality(GroupKeys(combined))
    /\ \A g, h \in DOMAIN merged_keys : merged_keys[g] = merged_keys[h] => g = h

\* C10: merge_matches returns one record per distinct match key of the
\* tagged input records, that is one per day and unordered pair of
\* canonical team names.
OneRecordPerMatchKey == mpc = "merged" => OneRecordPerKey(TaggedRows)

\* Two records of one fixture with home and away swapped give one record
SwappedRecordsMergeIntoOne ==
    /\ mpc = "merged"
    /\ Len(TaggedRows) = 2
    /\ TaggedRows[1].val["home_team"] = TaggedRows[2].val["away_team"]
    /\ TaggedRows[1].val["home_team"] # TaggedRows[2].val["home_team"]
    /\ Len(merged_matches) = 1

----------------------------------------------------------------------------
(* Properties of _calculate_derived_fields                                 *)

BothScores(match) == "home_score" \in DOMAIN match /\ "away_score" \in DOMAIN match

DerivedConsistent(match, out) ==
    IF BothScores(match)
    THEN /\ DerivedKeys \subseteq DOMAIN out
         /\ out["result"] \in {"H", "A", "D"}
         /\ out["result"] = "H" <=> match["home_score"] > match["away_score"]
         /\ out["result"] = "A" <=> match["home_score"] < match["away_score"]
         /\ out["result"] = "D" <=> match["home_score"] = match["away_score"]
         /\ out["total_goals"] = match["home_score"] + match["away_score"]
         /\ out["goal_difference"] = match["home_score"] - match["away_score"]
    ELSE DerivedKeys \cap DOMAIN out = {}

XgKeys == {"total_xg", "xg_difference"}
BothXg(match) == "home_xg" \in DOMAIN match.val /\ "away_xg" \in DOMAIN match.val
XgConverts(match) ==
    BothXg(match) /\ match.val["home_xg"].num /\ match.val["away_xg"].num
ScoreFails(match) ==
    /\ HasKey(match, "home_score") /\ HasKey(match, "away_score")
    /\ match.text \cap ScoreKeys # {}

\* C13: a failed conversion of home_xg or away_xg leaves out total_xg and
\* xg_difference only, the score fields being there when both scores are;
\* a failure in the score fields does not leave out total_xg and
\* xg_difference.
DerivedFailuresLocalized ==
    dpc = "done" =>
        /\ BothXg(match_in) /\ ~XgConverts(match_in) =>
              /\ XgKeys \cap DOMAIN match_out.val = {}
              /\ BothScores(match_in.val) => DerivedKeys \subseteq DOMAIN match_out.val
        /\ ScoreFails(match_in) /\ XgConverts(match_in) =>
              XgKeys \subseteq DOMAIN match_out.val

----------------------------------------------------------------------------
(* Properties of normalize and _create_match_key                           *)

\* C6: normalize(normalize(x)) = normalize(x) for every name x.
NormalizeIdempotent == npc = "twice" => norm_twice = norm_once

SameDay(d1, d2) == d1.kind # "nat" /\ d2.kind # "nat" /\ d1.day = d2.day

\* C7: the match key is the same with home and away swapped, for every
\* date of the same calendar day, and for every two names with the same
\* pair of canonical names.
MatchKeySymmetric ==
    kpc = "done" =>
        /\ match_key = _create_match_key(key_date, key_away, key_home)
        /\ \A d \in KeyDates :
              SameDay(d, key_date) => _create_match_key(d, key_home, key_away) = match_key
        /\ \A h, a \in KeyNames :
              CanonicalPair(h, a) = CanonicalPair(key_home, key_away) =>
                  _create_match_key(key_date, h, a) = match_key

\* A key of an evening kick-off whose home name sorts after the away name
KeyOfUnsortedTeams ==
    /\ kpc = "done"
    /\ key_date.kind = "str" /\ key_date.hour = 20
    /\ StrLess(TeamNormalizerNormalize(key_away), TeamNormalizerNormalize(key_home))
    /\ match_key # << >>

----------------------------------------------------------------------------
(* Properties of create_team_features                                      *)

PastOnly(ms, cutoff) == SelectSeq(ms, LAMBDA m : m.val["date"] < cutoff)

\* What the matches before the cutoff alone give
FeaturesFromPast(past, cutoff) ==
    {create_team_features(DataFrame(past), cutoff, window_sizes, tie) :
        tie \in Orders(Len(past))}

\* C1: the feature rows at cutoff C are those of the corpus without its
\* matches dated C or later (same teams, same columns, same values), so
\* adding, removing or changing such a match changes nothing.
NoLeakageFromCutoffOn ==
    fpc = "done" => features \in FeaturesFromPast(PastOnly(matches, date_cutoff), date_cutoff)

CorpusTeams(ms) ==
    {ms[i].val["home_team"] : i \in DOMAIN ms} \cup {ms[i].val["away_team"] : i \in DOMAIN ms}
QualifyingMatches(ms, cutoff, team) ==
    {i \in DOMAIN ms :
        /\ ms[i].val["date"] < cutoff
        /\ ms[i].val["home_team"] = team \/ ms[i].val["away_team"] = team}

\* C9: a team of the corpus with no match before the cutoff has the
\* default row in the result, also when no match at all is before the cutoff.
DefaultRowWithoutHistory ==
    fpc = "done" =>
        \A team \in CorpusTeams(matches) :
            QualifyingMatches(matches, date_cutoff, team) = {} =>
                \E i \in DOMAIN features : features[i].val = _get_default_features(team)

PastTeams == {team \in CorpusTeams(matches) : QualifyingMatches(matches, date_cutoff, team) # {}}
RowsOfTeam(team) == {i \in DOMAIN features : features[i].val[Col(0, "team")] = team}
WindowColumns == {"goals_scored_avg", "goals_conceded_avg", "points_avg", "win_rate"}

\* C16: the result has exactly one row for every team that is home or
\* away in a match before the cutoff and no other row; each row holds the
\* number of all the team's matches before the cutoff as total_matches and
\* the four columns of every configured window size.
OneRowPerPastTeam ==
    fpc = "done" =>
        /\ \A team \in PastTeams : Cardinality(RowsOfTeam(team)) = 1
        /\ \A i \in DOMAIN features :
            /\ features[i].val[Col(0, "team")] \in PastTeams
            /\ features[i].val[Col(0, "total_matches")]
                = Cardinality(QualifyingMatches(matches, date_cutoff,
                                                features[i].val[Col(0, "team")]))
            /\ \A w \in Range(window_sizes) : \A name \in WindowColumns :
                    Col(w, name) \in DOMAIN features[i].val

\* A team that is only away before the cutoff, with more matches than the
\* smallest window
AwayOnlyTeamBeyondWindow ==
    /\ fpc = "done"
    /\ \E i \in DOMAIN features :
        /\ features[i].val[Col(0, "total_matches")] > window_sizes[1]
        /\ \A m \in DOMAIN matches :
                matches[m].val["date"] < date_cutoff
                    => matches[m].val["home_team"] # features[i].val[Col(0, "team")]

\* A match seen from the side of the team
ScoredBy(team, m) ==
    IF m.val["home_team"] = team THEN m.val["home_score"] ELSE m.val["away_score"]
ConcededBy(team, m) ==
    IF m.val["home_team"] = team THEN m.val["away_score"] ELSE m.val["home_score"]
PointsFor(team, m) ==
    IF ScoredBy(team, m) > ConcededBy(team, m) THEN 3
    ELSE IF ScoredBy(team, m) = ConcededBy(team, m) THEN 1
    ELSE 0
Quantity(name, team, m) ==
    IF name = "goals_scored_avg" THEN ScoredBy(team, m)
    ELSE IF name = "goals_conceded_avg" THEN ConcededBy(team, m)
    ELSE IF name = "points_avg" THEN PointsFor(team, m)
    ELSE IF PointsFor(team, m) = 3 THEN 1 ELSE 0

\* The sum of a quantity over the matches W of the corpus
RECURSIVE Total(_, _, _)
TotalWith(name, team, W, i) == Quantity(name, team, matches[i]) + Total(name, team, W \ {i})
Total(name, team, W) ==
    IF W = {} THEN 0 ELSE TotalWith(name, team, W, CHOOSE i \in W : TRUE)

IsMeanOf(value, total, count) == ~value.nan /\ value.num * count = total * value.den
AllPlayed(W) == \A i \in W : Has(matches[i], "home_score") /\ Has(matches[i], "away_score")
Smaller(a, b) == IF a < b THEN a ELSE b

\* The four columns of window w in the row are the means over the matches W
RowAggregates(row, w, W) ==
    \A name \in WindowColumns :
        IsMeanOf(row.val[Col(w, name)],
                 Total(name, row.val[Col(0, "team")], W), Cardinality(W))

WindowsOf(team, w) ==
    {W \in SUBSET QualifyingMatches(matches, date_cutoff, team) :
        Cardinality(W) = Smaller(w, Cardinality(QualifyingMatches(matches, date_cutoff, team)))}

\* C17: where all the matches of a team before the cutoff have a score,
\* the four columns of a window are the arithmetic means, over the matches
\* of the window, of the team's own goals, the opponent's goals, the points
\* (3 win, 1 draw, 0 loss) and the indicator of 3 points.
WindowMeansFromOwnSide ==
    fpc = "done" =>
        \A i \in DOMAIN features : \A w \in Range(window_sizes) :
            AllPlayed(QualifyingMatches(matches, date_cutoff, features[i].val[Col(0, "team")]))
                => \E W \in WindowsOf(features[i].val[Col(0, "team")], w) :
                        RowAggregates(features[i], w, W)

\* Three 2-0 home wins as the only history give 2.0, 0.0, 3.0 and 1.0
ThreeHomeWins ==
    /\ fpc = "done"
    /\ window_sizes = <<5, 10>>
    /\ matches = [k \in 1..3 |-> Played(1, Juventus, Arsenal, 2, 0)]
    /\ \E i \in DOMAIN features :
        /\ features[i].val[Col(0, "team")] = Juventus
        /\ features[i].val[Col(5, "goals_scored_avg")] = [nan |-> FALSE, num |-> 2, den |-> 1]
        /\ features[i].val[Col(5, "goals_conceded_avg")] = [nan |-> FALSE, num |-> 0, den |-> 1]
        /\ features[i].val[Col(5, "points_avg")] = [nan |-> FALSE, num |-> 3, den |-> 1]
        /\ features[i].val[Col(5, "win_rate")] = [nan |-> FALSE, num |-> 1, den |-> 1]

\* No match of W is older than a match of the team left out of W
MostRecent(team, W) ==
    \A i \in W : \A o \in QualifyingMatches(matches, date_cutoff, team) \ W :
        matches[i].val["date"] >= matches[o].val["date"]

\* The row's columns of window w come from the matches W: their means
\* where all of W have a score, no number for the goals otherwise
RowFromWindow(row, w, W) ==
    IF AllPlayed(W) THEN RowAggregates(row, w, W)
    ELSE /\ row.val[Col(w, "goals_scored_avg")].nan
         /\ row.val[Col(w, "goals_conceded_avg")].nan

\* C20: for each team and window size w the columns of the window come
\* from min(w, n) of the team's n matches before the cutoff, none of them
\* older than a match left out; with n < w these are all n matches.
WindowIsMostRecent ==
    fpc = "done" =>
        \A i \in DOMAIN features : \A w \in Range(window_sizes) :
            \E W \in WindowsOf(features[i].val[Col(0, "team")], w) :
                /\ MostRecent(features[i].val[Col(0, "team")], W)
                /\ RowFromWindow(features[i], w, W)

\* A team with two matches of different days before the cutoff and a
\* window of one match, beside a team with one match and a window of two
OlderMatchLeftOut ==
    /\ fpc = "done"
    /\ window_sizes[1] = 1
    /\ \E i \in DOMAIN features :
        /\ features[i].val[Col(0, "total_matches")] = 2
        /\ \E a, b \in QualifyingMatches(matches, date_cutoff, features[i].val[Col(0, "team")]) :
                matches[a].val["date"] < matches[b].val["date"]
    /\ \E i \in DOMAIN features : features[i].val[Col(0, "total_matches")] = 1

----------------------------------------------------------------------------
(* Properties of _merge_match_group                                        *)

\* The rank of a tag: 0 for the primary source, else the default table,
\* else the sentinel
RankOf(tag) ==
    IF tag = group_primary THEN 0
    ELSE IF tag = "football_data" THEN 1
    ELSE IF tag = "understat" THEN 2
    ELSE IF tag = "sofascore" THEN 3
    ELSE 999

OtherColumns == {"competition", "home_shots"}
NonMissing(col) == {i \in DOMAIN group_rows : ValidValue(group_rows[i], col)}
FirstRanked(col) ==
    {i \in NonMissing(col) :
        \A j \in NonMissing(col) :
            RankOf(group_rows[i].val["_source"]) <= RankOf(group_rows[j].val["_source"])}

\* C19: for a column that is neither core nor xG the merged value is the
\* value of a record of the lowest rank among those that hold one (rank 0
\* for the primary source, 1 to 3 by the default table, 999 for other
\* tags); without such a record the merged dict lacks the column.
FirstNonMissingByRank ==
    gpc = "done" =>
        \A col \in OtherColumns :
            IF NonMissing(col) = {} THEN col \notin Keys(group_merged)
            ELSE /\ Has(group_merged, col)
                 /\ group_merged.val[col] \in
                        {group_rows[i].val[col] : i \in FirstRanked(col)}

\* A sofascore record with shots and an empty competition before a record
\* of a fourth list with other shots and a competition
UnrankedFillsOnlyGaps ==
    /\ gpc = "done"
    /\ group_primary = "football_data"
    /\ group_rows = DataFrame(<<GroupRow(3, <<TRUE, "">>, <<TRUE, 5>>),
                                GroupRow(4, <<TRUE, "PL">>, <<TRUE, 9>>)>>)
    /\ group_merged.val["home_shots"] = 5
    /\ group_merged.val["competition"] = "PL"

----------------------------------------------------------------------------
(* Properties of normalize for any argument                                *)

\* C11: normalize never raises; it returns a str for every argument, the
\* empty str for None, the empty str and a missing value.
NormalizeNeverRaises ==
    apc = "done" =>
        /\ outcome.raised = ""
        /\ (IsNa(argument) \/ argument = PyStr(<< >>)) => outcome.value = << >>

----------------------------------------------------------------------------
(* Properties of merge_matches with empty source lists                     *)

WithoutEmpty(srcs) == SelectSeq(srcs, LAMBDA s : s # << >>)
RecordsOf(out) == [g \in DOMAIN out |-> out[g][2]]

\* What the non-empty lists alone give, passed in the same order
MergedWithoutEmpty(srcs) ==
    {RecordsOf(merge_matches(srcs, primary_source, tie)) : tie \in TieOrders(srcs)}

\* C12: merge_matches returns the empty list for no source lists and for
\* empty source lists only, and an empty list among non-empty ones changes
\* nothing: the result is that of the call without the empty lists.
EmptySourcesChangeNothing ==
    mpc = "merged" =>
        /\ WithoutEmpty(sources) = << >> => merged_matches = << >>
        /\ merged_matches \in MergedWithoutEmpty(WithoutEmpty(sources))

----------------------------------------------------------------------------
(* Properties of records without a date                                    *)

UnknownPrefix == <<"u", "n", "k", "n", "o", "w", "n", "_">>
InUnknownBucket(key) ==
    Len(key) >= Len(UnknownPrefix) /\ SubSeq(key, 1, Len(UnknownPrefix)) = UnknownPrefix
ReturnedKeys == {merged_keys[g] : g \in DOMAIN merged_keys}

DatelessKeptIn(combined) ==
    \A i \in DOMAIN combined :
        ~Has(combined[i], "date") =>
            /\ InUnknownBucket(combined[i].val["_match_key"])
            /\ combined[i].val["_match_key"] \in ReturnedKeys

\* C14: a record whose date is missing or does not parse gets a match key
\* with the date part 'unknown', the merge returns, and a record with that
\* key is in the output.
DatelessRecordsKept ==
    mpc = "merged" =>
        /\ Len(merged_matches) = Len(merged_keys)
        /\ DatelessKeptIn(TaggedRows)

\* A record with a date that does not parse and one with no date at all
\* come out under keys of the unknown bucket
UnparseableDateMerged ==
    /\ mpc = "merged"
    /\ sources = <<<<RecUnplayed>>, <<RecOther>>>>
    /\ Len(merged_keys) = 2
    /\ \A g \in DOMAIN merged_keys : InUnknownBucket(merged_keys[g])

----------------------------------------------------------------------------
(* Properties of the alias table                                           *)

Lowered(s) == [i \in DOMAIN s |-> LowerChar(s[i])]

EntryNames(i) == {_load_mappings[i].standard} \cup Range(_load_mappings[i].aliases)

\* The entries of the table that hold a name, letter case aside
EntriesNaming(name) ==
    {i \in DOMAIN _load_mappings :
        \E n \in EntryNames(i) : Lowered(n) = Lowered(name)}

EntrySpellings(i) == UNION {{n, Lowered(n), Upper(n)} : n \in EntryNames(i)}

SameKeyAsOthers(name) ==
    \A i \in EntriesNaming(name) :
        \A other \in EntrySpellings(i) :
            _create_match_key(Timestamp(1, 15), name, Arsenal)
                = _create_match_key(Timestamp(1, 20), Arsenal, other)

\* C15: every alias and every canonical name of the table, in any letter
\* case, normalizes to the canonical name of its entry, and two records of
\* one day naming a team by two spellings of one entry get the same match
\* key.
AliasesResolveToCanonical ==
    npc \in {"once", "twice"} /\ EntriesNaming(team_name) # {} =>
        /\ \A i \in EntriesNaming(team_name) : norm_once = _load_mappings[i].standard
        /\ SameKeyAsOthers(team_name)

\* MAN UTD gives Manchester United
CapitalAliasResolved ==
    /\ npc = "once"
    /\ team_name = <<"M", "A", "N", " ", "U", "T", "D">>
    /\ norm_once = ManchesterUnited

----------------------------------------------------------------------------
(* Source tags of merge_matches                                            *)

\* The tag of the p-th argument list (p counts from 1, the index from 0)
PositionTag(p) ==
    IF p = 1 THEN "football_data"
    ELSE IF p = 2 THEN "understat"
    ELSE IF p = 3 THEN "sofascore"
    ELSE "source_other"

\* The values of a column the records of the p-th list bring
BroughtBy(p, col) ==
    {sources[p][k].val[col] : k \in {k \in DOMAIN sources[p] : Has(sources[p][k], col)}}

TakenFrom(p, merged_match, col) ==
    BroughtBy(p, col) # {} =>
        /\ Has(merged_match, col)
        /\ merged_match.val[col] \in BroughtBy(p, col)

\* C23: when the records of a call form one group of two, the scores are
\* those of the list whose position carries the tag primary_source and the
\* xG values those of the list at the understat position, whatever the
\* records say and whether or not an earlier list is empty.
TagsGoByPosition ==
    (mpc = "merged" /\ Len(merged_matches) = 1 /\ TotalLen(sources) = 2) =>
        \A p \in DOMAIN sources :
            /\ PositionTag(p) = primary_source =>
                   /\ TakenFrom(p, merged_matches[1], "home_score")
                   /\ TakenFrom(p, merged_matches[1], "away_score")
            /\ PositionTag(p) = "understat" =>
                   /\ TakenFrom(p, merged_matches[1], "home_xg")
                   /\ TakenFrom(p, merged_matches[1], "away_xg")

\* The first list is empty: the second list is still understat and, as
\* the primary source, gives the score 2-1 against the 2-2 of the third
EmptyFirstListKeepsTags ==
    /\ mpc = "merged"
    /\ primary_source = "understat"
    /\ sources = << << >>, <<RecFull>>, <<RecConflict>> >>
    /\ Len(merged_matches) = 1
    /\ merged_matches[1].val["away_score"] = 1

\* A field of a returned record is derived or holds the value a row of
\* the group has in that column
SuppliedIn(combined, rows, merged_match) ==
    \A col \in DOMAIN merged_match.val \ (DerivedKeys \cup XgKeys) :
        \E i \in rows : Has(combined[i], col) /\ merged_match.val[col] = combined[i].val[col]

\* C24: a returned record has no temporary field and no field holding a
\* missing placeholder, and each of its fields is derived or was supplied
\* by a record of its group, in groups of one record as in larger ones.
OnlySuppliedFields ==
    mpc = "merged" =>
        \A g \in DOMAIN merged_matches :
            /\ merged_matches[g].na = {}
            /\ Keys(merged_matches[g]) \cap TempColumns = {}
            /\ SuppliedIn(TaggedRows, GroupRows(TaggedRows, g), merged_matches[g])

----------------------------------------------------------------------------
(* Properties of the fuzzy step of normalize                               *)

\* The name the fuzzy step compares: lowered, without the club tokens
StrippedName(name) == StripSuffixes(StripPrefixes(Lowered(Strip(name)), Prefixes), Suffixes)
ExactlyFound(name) == \E i \in DOMAIN _load_mappings : \E n \in EntryNames(i) : Lowered(n) = Lowered(Strip(name))

\* r1 > r2 on two ratios
RatioGreater(r1, r2) == r1[1] * r2[2] > r2[1] * r1[2]
NoneScoresMore(s, r) ==
    \A j \in DOMAIN _load_mappings : \A m \in EntryNames(j) :
        ~RatioGreater(_similarity(s, Lowered(m)), r)
SomeAbove(s) ==
    \E j \in DOMAIN _load_mappings : \E m \in EntryNames(j) :
        RatioAbove(_similarity(s, Lowered(m)), 85)
BestEntryNamed(s, standard) ==
    \E i \in DOMAIN _load_mappings :
        /\ _load_mappings[i].standard = standard
        /\ \E n \in EntryNames(i) : NoneScoresMore(s, _similarity(s, Lowered(n)))

\* C21: for a name the exact lookup does not find, normalize returns the
\* canonical name of an entry with the maximal similarity to the stripped
\* name when some entry scores above 0.85, and the title-cased stripped
\* name when none does.
FuzzyReturnsBest ==
    (npc # "start" /\ npc # "idle" /\ team_name # << >> /\ ~ExactlyFound(team_name)) =>
        IF SomeAbove(StrippedName(team_name))
        THEN BestEntryNamed(StrippedName(team_name), norm_once)
        ELSE norm_once = Title(StrippedName(team_name))

----------------------------------------------------------------------------
(* Properties of find_best_match                                           *)

\* The similarity of the normalized target and the normalized i-th candidate
CandidateScore(i) ==
    _similarity(TeamNormalizerNormalize(target_name), TeamNormalizerNormalize(candidates[i]))
Qualifying(i) == 100 * CandidateScore(i)[1] > 80 * CandidateScore(i)[2]
FirstMaximal(i) ==
    /\ \A j \in DOMAIN candidates : ~RatioGreater(CandidateScore(j), CandidateScore(i))
    /\ \A j \in 1..(i - 1) : RatioGreater(CandidateScore(i), CandidateScore(j))

\* C22: find_best_match returns None for an empty name, an empty list and
\* when no candidate scores above 0.80; otherwise it returns, as it was
\* passed, the earliest candidate among those of the highest score.
BestMatchIsFirstMaximal ==
    bpc = "done" =>
        IF target_name = << >> \/ \A i \in DOMAIN candidates : ~Qualifying(i)
        THEN best_match = NoMatch
        ELSE \E i \in DOMAIN candidates :
                /\ FirstMaximal(i)
                /\ best_match = Match(candidates[i])

\* Two candidates that both normalize to the target: the first is
\* returned, with its club token
FirstOfEqualCandidates ==
    /\ bpc = "done"
    /\ target_name = Arsenal
    /\ candidates = <<FCArsenal, ArsenalFC>>
    /\ best_match = Match(FCArsenal)

----------------------------------------------------------------------------
(* Properties of save_matches                                              *)

\* The contents of the table apart from the time of the insert
WithoutCreatedAt(row) == [row EXCEPT !.created_at = 0]
Copies(rows, r) == Cardinality({i \in DOMAIN rows : WithoutCreatedAt(rows[i]) = r})
SameContents(a, b) ==
    \A r \in {WithoutCreatedAt(a[i]) : i \in DOMAIN a} \cup {WithoutCreatedAt(b[i]) : i \in DOMAIN b} :
        Copies(a, r) = Copies(b, r)

\* The record holds no match_id: no such key, a missing value or ''
LacksMatchId(match) == ~Has(match, "match_id") \/ match.val["match_id"] = << >>

\* C18: after any sequence of save_matches calls no two rows of the table
\* have the same match_id; saving the list of the previous call again
\* leaves the contents of the table as they were; and the row of a record
\* without match_id has the key made of its date and teams.
UpsertByKey ==
    spc = "saved" =>
        /\ \A i, j \in DOMAIN db_rows : i # j => db_rows[i].match_id # db_rows[j].match_id
        /\ (saved_list # << >> /\ prev_list = saved_list) => SameContents(db_rows, db_before)
        /\ \A i \in DOMAIN db_rows :
                LacksMatchId(db_rows[i].raw_data) =>
                    db_rows[i].match_id = TextOf(_generate_match_id(db_rows[i].raw_data))


----------------------------------------------------------------------------
(* Properties of _make_request                                             *)

\* When the call was entered the cache held an entry of the request no
\* older than cache_ttl
FreshEntryAtCall ==
    /\ use_cache
    /\ cache_at_call[request].exists
    /\ time_at_call - cache_at_call[request].mtime <= cache_ttl

\* The call returned the entry, sent nothing and left last_request_time
ServedFromCache ==
    /\ call_result = ReturnedData(cache_at_call[request].data)
    /\ sent = 0
    /\ last_request_time = last_at_call

\* The cache changed during the call only by a write after a 200 reply
\* with use_cache
WrittenOnlyAfter200 ==
    cache # cache_at_call => status_code = "200" /\ use_cache

ReturnedNoneCacheKept == call_result = ReturnedNone /\ cache = cache_at_call

RetriesUntilAnswered ==
    /\ (cpc = "done" /\ sent > 0) =>
          /\ status_code # "429"
          /\ call_result.kind \in {"data", "none"}
          /\ sent = retries + 1
    /\ cpc = "get" => last_request_time = time_now /\ sent = retries
====
